---- MODULE Spec2Model ----
(***************************************************************************)
(* Verification model of the multi-agent orchestration core:               *)
(*   - CircuitBreaker            (server/utils/circuit-breaker.ts)         *)
(*   - PriorityQueue             (server/utils/priority-queue.ts)          *)
(*   - MasterControlProgram      (server/agents/master-control-program.ts) *)
(*   - BaseAgent                 (server/agents/base-agent.ts)             *)
(*   - AgentCommunicationBus     (shared/protocols/agent-communication.ts) *)
(* Three specifications share the module: SpecCB (one circuit breaker),    *)
(* SpecPQ (the task queue alone) and Spec (orchestrator, bus and agents).  *)
(***************************************************************************)
EXTENDS Integers, Sequences, FiniteSets, TLC

(***************************************************************************)
(* Generic helpers                                                         *)
(***************************************************************************)
RemoveAt(s, i) == [k \in 1..(Len(s) - 1) |-> IF k < i THEN s[k] ELSE s[k + 1]]

(***************************************************************************)
(* PART 1 - CircuitBreaker                                                 *)
(***************************************************************************)

\* CircuitBreakerOptions of the modelled breaker (time unit: one clock tick)
failureThreshold == 2
resetTimeout == 1
halfOpenSuccessThreshold == 2
timeout == 1
monitorInterval == 2

\* bounds of the breaker exploration
MaxTime == 5
MaxCalls == 5
MaxInflight == 3

VARIABLES
  breaker,      \* the CircuitBreaker's fields
  cbNow,        \* Date.now()
  inflight,     \* start times of the execute() calls whose fn() has not settled
  calls,        \* number of execute() calls made so far
  nextMonitor,  \* earliest time of the next setInterval tick of monitor()
  cbOp,         \* history: the last operation on the breaker
  cbPre,        \* history: the breaker's fields before the last operation
  hoSucc,       \* history: successes recorded since the breaker entered HALF_OPEN
  consecFail,   \* history: failures recorded since the last success / since CLOSED was entered
  openSince,    \* history: time at which the breaker last entered OPEN
  halfOpens     \* history: OPEN -> HALF_OPEN transitions since the breaker last entered OPEN

cbVars == <<breaker, cbNow, inflight, calls, nextMonitor, cbOp, cbPre, hoSucc, consecFail,
            openSince, halfOpens>>

\* setState(newState) that forgets to clear successes on entering HALF_OPEN
setStateKeepSuccesses(b, newState, t) ==
  IF b.state # newState
    THEN LET b1 == [b EXCEPT !.state = newState, !.lastStateChange = t]
         IN  IF newState = "CLOSED"
               THEN [b1 EXCEPT !.failures = 0, !.successes = 0]
               ELSE b1
    ELSE b

\* setState(newState)
setState(b, newState, t) ==
  IF b.state # newState
    THEN LET b1 == [b EXCEPT !.state = newState, !.lastStateChange = t]
         IN  IF newState = "CLOSED"
               THEN [b1 EXCEPT !.failures = 0, !.successes = 0]
               ELSE IF newState = "HALF_OPEN"
                      THEN [b1 EXCEPT !.successes = 0]
                      ELSE b1
    ELSE b

\* onSuccess()
onSuccess(b, t) ==
  LET b1 == [b EXCEPT !.lastSuccessTime = t]
      b2 == IF b1.state = "HALF_OPEN"
              THEN LET b3 == [b1 EXCEPT !.successes = b1.successes + 1]
                   IN  IF b3.successes >= halfOpenSuccessThreshold
                         THEN setState(b3, "CLOSED", t)
                         ELSE b3
              ELSE b1
  IN  IF b2.state = "CLOSED"
        THEN [b2 EXCEPT !.failures = 0, !.successes = 0]
        ELSE b2

\* onFailure() with the threshold test off by one (> for >=)
onFailureLate(b, t) ==
  LET b1 == [b EXCEPT !.failures = b.failures + 1, !.lastFailureTime = t]
  IN  IF b1.failures > failureThreshold \/ b1.state = "HALF_OPEN"
        THEN setState(b1, "OPEN", t)
        ELSE b1

\* onFailure()
onFailure(b, t) ==
  LET b1 == [b EXCEPT !.failures = b.failures + 1, !.lastFailureTime = t]
  IN  IF b1.failures >= failureThreshold \/ b1.state = "HALF_OPEN"
        THEN setState(b1, "OPEN", t)
        ELSE b1

\* a test at the head of execute() that lets an OPEN breaker try again at once
resetElapsedAtOnce(b, t) == t - b.lastFailureTime >= 0

\* the test at the head of execute(): may an OPEN breaker try again?
resetElapsed(b, t) == t - b.lastFailureTime > resetTimeout

\* a monitor() that does not wait three times the resetTimeout
monitorEager(b, t) ==
  IF b.state = "OPEN" /\ t - b.lastStateChange > resetTimeout
    THEN setState(b, "HALF_OPEN", t)
    ELSE b

\* monitor(): the body of the setInterval callback
monitor(b, t) ==
  IF b.state = "OPEN" /\ t - b.lastStateChange > resetTimeout * 3
    THEN setState(b, "HALF_OPEN", t)
    ELSE b

\* history bookkeeping shared by the breaker's actions
CBHistory(op, b2) ==
  /\ cbOp' = op
  /\ cbPre' = breaker
  /\ hoSucc' = IF b2.state = "HALF_OPEN"
                 THEN (IF breaker.state # "HALF_OPEN" THEN 0
                       ELSE IF op = "success" THEN hoSucc + 1 ELSE hoSucc)
                 ELSE IF breaker.state = "HALF_OPEN" /\ op = "success"
                        THEN hoSucc + 1
                        ELSE hoSucc
  /\ consecFail' = IF op \in {"failure", "timeout"} THEN consecFail + 1
                   ELSE IF op = "success" THEN 0
                   ELSE IF b2.state = "CLOSED" /\ breaker.state # "CLOSED" THEN 0
                   ELSE consecFail
  /\ openSince' = IF b2.state = "OPEN" /\ breaker.state # "OPEN" THEN cbNow ELSE openSince
  /\ halfOpens' = IF b2.state = "OPEN" /\ breaker.state # "OPEN" THEN 0
                  ELSE IF b2.state = "HALF_OPEN" /\ breaker.state = "OPEN" THEN halfOpens + 1
                  ELSE halfOpens

CBInit ==
  /\ breaker = [state |-> "CLOSED", failures |-> 0, successes |-> 0, rejected |-> 0,
                lastFailureTime |-> 0, lastSuccessTime |-> 0, lastStateChange |-> 0]
  /\ cbNow = 0
  /\ inflight = <<>>
  /\ calls = 0
  /\ nextMonitor = monitorInterval
  /\ cbOp = "init"
  /\ cbPre = breaker
  /\ hoSucc = 0
  /\ consecFail = 0
  /\ openSince = 0
  /\ halfOpens = 0

\* execute(fn) up to the call of fn(): rejected while OPEN
ExecuteReject ==
  /\ calls < MaxCalls
  /\ breaker.state = "OPEN"
  /\ ~resetElapsed(breaker, cbNow)
  /\ breaker' = [breaker EXCEPT !.rejected = breaker.rejected + 1]
  /\ calls' = calls + 1
  /\ CBHistory("reject", breaker')
  /\ UNCHANGED <<cbNow, inflight, nextMonitor>>

\* execute(fn) up to the call of fn(): admitted, fn() is invoked and pending
ExecuteInvoke ==
  /\ calls < MaxCalls
  /\ Len(inflight) < MaxInflight
  /\ breaker.state = "OPEN" => resetElapsed(breaker, cbNow)
  /\ breaker' = IF breaker.state = "OPEN"
                  THEN setState(breaker, "HALF_OPEN", cbNow)
                  ELSE breaker
  /\ inflight' = Append(inflight, cbNow)
  /\ calls' = calls + 1
  /\ CBHistory("invoke", breaker')
  /\ UNCHANGED <<cbNow, nextMonitor>>

\* fn() resolves: the race is won by the operation, onSuccess()
SettleSuccess(i) ==
  /\ breaker' = onSuccess(breaker, cbNow)
  /\ inflight' = RemoveAt(inflight, i)
  /\ CBHistory("success", breaker')
  /\ UNCHANGED <<cbNow, calls, nextMonitor>>

\* fn() rejects: onFailure()
SettleFailure(i) ==
  /\ breaker' = onFailure(breaker, cbNow)
  /\ inflight' = RemoveAt(inflight, i)
  /\ CBHistory("failure", breaker')
  /\ UNCHANGED <<cbNow, calls, nextMonitor>>

\* the timeout timer of the race fires first: onFailure()
SettleTimeout(i) ==
  /\ cbNow - inflight[i] >= timeout
  /\ breaker' = onFailure(breaker, cbNow)
  /\ inflight' = RemoveAt(inflight, i)
  /\ CBHistory("timeout", breaker')
  /\ UNCHANGED <<cbNow, calls, nextMonitor>>

\* a tick of the setInterval(monitor) timer
Monitor ==
  /\ cbNow >= nextMonitor
  /\ breaker' = monitor(breaker, cbNow)
  /\ nextMonitor' = cbNow + monitorInterval
  /\ CBHistory("monitor", breaker')
  /\ UNCHANGED <<cbNow, inflight, calls>>

\* wall-clock time passes
CBTick ==
  /\ cbNow < MaxTime
  /\ cbNow' = cbNow + 1
  /\ cbOp' = "tick"
  /\ cbPre' = breaker
  /\ UNCHANGED <<breaker, inflight, calls, nextMonitor, hoSucc, consecFail, openSince,
                 halfOpens>>

CBNext ==
  \/ ExecuteReject
  \/ ExecuteInvoke
  \/ \E i \in 1..Len(inflight) : SettleSuccess(i)
  \/ \E i \in 1..Len(inflight) : SettleFailure(i)
  \/ \E i \in 1..Len(inflight) : SettleTimeout(i)
  \/ Monitor
  \/ CBTick

(***************************************************************************)
(* PART 2 - PriorityQueue with the orchestrator's comparator               *)
(***************************************************************************)

\* Priority values of the protocol the orchestrator is written against
Priorities == {"critical", "high", "medium", "low"}

\* priorityOrder of the comparator
priorityOrder(p) ==
  CASE p = "critical" -> 0
    [] p = "high"     -> 1
    [] p = "medium"   -> 2
    [] p = "low"      -> 3

\* comparator with the priority difference taken the wrong way round
comparatorReversed(a, b) ==
  LET priorityDiff == priorityOrder(b.task.priority) - priorityOrder(a.task.priority)
  IN  IF priorityDiff # 0 THEN priorityDiff ELSE a.submittedAt - b.submittedAt

\* the comparator handed to the PriorityQueue by the orchestrator
comparator(a, b) ==
  LET priorityDiff == priorityOrder(a.task.priority) - priorityOrder(b.task.priority)
  IN  IF priorityDiff # 0 THEN priorityDiff ELSE a.submittedAt - b.submittedAt

\* a sort position that puts equal elements in reverse array order (not stable)
sortPositionUnstable(items, k) ==
  1 + Cardinality({j \in 1..Len(items) : comparator(items[j], items[k]) < 0})
    + Cardinality({j \in 1..Len(items) : j > k /\ comparator(items[j], items[k]) = 0})

\* position of items[k] after a stable sort: behind every element that
\* compares smaller and every earlier element that compares equal
sortPosition(items, k) ==
  1 + Cardinality({j \in 1..Len(items) : comparator(items[j], items[k]) < 0})
    + Cardinality({j \in 1..Len(items) : j < k /\ comparator(items[j], items[k]) = 0})

\* Array.prototype.sort(this.comparator), a stable sort
sort(items) ==
  [pos \in 1..Len(items) |->
     items[CHOOSE k \in 1..Len(items) : sortPosition(items, k) = pos]]

\* PriorityQueue.enqueue: push, then sort the whole array
enqueue(items, item) == sort(Append(items, item))

\* PriorityQueue.dequeue: shift (the queue is left alone when empty)
dequeue(items) == IF Len(items) = 0 THEN items ELSE Tail(items)

\* a peek that returns the last element of the array
peekLast(items) == items[Len(items)]

\* PriorityQueue.peek
peek(items) == items[1]

\* PriorityQueue.isEmpty
isEmpty(items) == Len(items) = 0

\* bounds of the queue exploration
MaxPQItems == 4
MaxPQTime == 2

VARIABLES
  pqItems,   \* PriorityQueue.items, elements shaped like TaskInfo
  pqNow,     \* Date.now() used for submittedAt
  pqCount,   \* number of items enqueued so far (the id is the submission rank)
  pqLast     \* history: the last operation, what it returned, the items before it

pqVars == <<pqItems, pqNow, pqCount, pqLast>>

NoItem == [task |-> [id |-> 0, priority |-> "none"], submittedAt |-> 0]

PQInit ==
  /\ pqItems = <<>>
  /\ pqNow = 0
  /\ pqCount = 0
  /\ pqLast = [op |-> "init", item |-> NoItem, before |-> <<>>]

PQEnqueue(p) ==
  /\ pqCount < MaxPQItems
  /\ LET item == [task |-> [id |-> pqCount + 1, priority |-> p], submittedAt |-> pqNow]
     IN  /\ pqItems' = enqueue(pqItems, item)
         /\ pqLast' = [op |-> "enqueue", item |-> item, before |-> pqItems]
  /\ pqCount' = pqCount + 1
  /\ UNCHANGED pqNow

PQDequeue ==
  /\ pqItems' = dequeue(pqItems)
  /\ pqLast' = [op |-> "dequeue",
                item |-> IF isEmpty(pqItems) THEN NoItem ELSE peek(pqItems),
                before |-> pqItems]
  /\ UNCHANGED <<pqNow, pqCount>>

PQTick ==
  /\ pqNow < MaxPQTime
  /\ pqNow' = pqNow + 1
  /\ pqLast' = [op |-> "tick", item |-> NoItem, before |-> pqItems]
  /\ UNCHANGED <<pqItems, pqCount>>

PQNext ==
  \/ \E p \in Priorities : PQEnqueue(p)
  \/ PQDequeue
  \/ PQTick


(***************************************************************************)
(* PART 3 - MasterControlProgram, BaseAgent and the communication bus      *)
(***************************************************************************)

None == "none"

\* an unset Date field
NoTime == 0 - 1

\* AgentType
MCP == "master_control_program"
DATA_VALIDATION == "data_validation_agent"
VALUATION == "valuation_agent"

\* the agents MasterControlProgram.initialize() creates and registers
ManagedAgents == {DATA_VALIDATION, VALUATION}
AllAgentTypes == ManagedAgents \cup {MCP}

\* StatusCode.SUCCESS, the value handleTaskResponse compares with
StatusCode_SUCCESS == "success"

\* the calls of submitTask explored by the model (defaults filled in): a
\* routed task, a routed task whose execution throws, an explicit destination,
\* a task routed to the orchestrator itself, a task type without a routing
\* entry, and a task of a requester that wants no response
SubmitInputs ==
  { [taskType |-> "validate_property", destinationAgent |-> None, parameters |-> "x1",
     priority |-> "medium", responseRequired |-> TRUE,
     source |-> None, messageId |-> None],
    [taskType |-> "validate_property", destinationAgent |-> None, parameters |-> "bad",
     priority |-> "high", responseRequired |-> TRUE,
     source |-> "user_interaction_agent", messageId |-> "msg_req"],
    [taskType |-> "echo", destinationAgent |-> DATA_VALIDATION, parameters |-> "x1",
     priority |-> "high", responseRequired |-> TRUE,
     source |-> "user_interaction_agent", messageId |-> "msg_req"],
    [taskType |-> "get_system_status", destinationAgent |-> None, parameters |-> "x1",
     priority |-> "high", responseRequired |-> TRUE,
     source |-> None, messageId |-> None],
    [taskType |-> "echo", destinationAgent |-> None, parameters |-> "x1",
     priority |-> "medium", responseRequired |-> TRUE,
     source |-> None, messageId |-> None],
    [taskType |-> "validate_property", destinationAgent |-> None, parameters |-> "x1",
     priority |-> "low", responseRequired |-> FALSE,
     source |-> "user_interaction_agent", messageId |-> "msg_req"] }

\* the agents unregisterAgent is called for
UnregisterInputs == {DATA_VALIDATION}

\* bounds of the orchestrator exploration
MaxTasks == 1
MaxClock == 1

\* tasks submitted in the runs that look at the order of the queue
MaxQueued == 2

\* initialize() calls made while callbacks of the dispatch loop are pending
MaxArmed == 2

TaskIds == 1..MaxQueued

VARIABLES
  running,        \* MasterControlProgram.running
  agents,         \* keys of MasterControlProgram.agents
  agentStatus,    \* MasterControlProgram.agentStatus (status field, None = no entry)
  taskRegistry,   \* MasterControlProgram.taskRegistry, id -> TaskInfo
  taskQueue,      \* MasterControlProgram.taskQueue.items (references into the registry)
  taskCount,      \* number of task ids generated so far
  now,            \* Date.now()
  subscribers,    \* keys of AgentCommunicationBus.subscribers
  agentRunning,   \* BaseAgent.running of each managed agent
  agentTasks,     \* BaseAgent.tasks of the managed agents, by task id
  published,      \* history: the messages published during the last step
  last            \* history: the last operation, its arguments and its outcome

mcpVars == <<running, agents, agentStatus, taskRegistry, taskQueue, taskCount, now,
             subscribers, agentRunning, agentTasks, published, last>>

NoTask == [task |-> [priority |-> None, parameters |-> None],
           destinationAgent |-> None, responseRequired |-> FALSE,
           source |-> None, messageId |-> None,
           submittedAt |-> 0, completedAt |-> NoTime,
           status |-> None, result |-> None, error |-> None]

NoAgentTask == [agent |-> None, parameters |-> None, executing |-> FALSE,
                completedAt |-> FALSE, result |-> None, error |-> None]

\* findAgentForTask: the static taskTypeToAgent table
findAgentForTask(taskType) ==
  CASE taskType \in {"validate_property", "analyze_data_quality",
                     "generate_data_recommendations", "validate_property_batch"}
         -> DATA_VALIDATION
    [] taskType \in {"calculate_property_value", "find_comparable_properties",
                     "detect_valuation_anomalies", "analyze_property_trend",
                     "batch_valuation"}
         -> VALUATION
    [] taskType \in {"submit_task", "cancel_task", "get_task_status",
                     "get_agent_status", "get_system_status"}
         -> MCP
    [] OTHER -> None

\* the agent submitTask settles on: the explicit destination, else the table
targetAgent(taskType, destinationAgent) ==
  IF destinationAgent # None THEN destinationAgent ELSE findAgentForTask(taskType)

\* a TaskInfo that is created already assigned
newTaskInfoAssigned(params, target, t) ==
  [task |-> [priority |-> params.priority, parameters |-> params.parameters],
   destinationAgent |-> target, responseRequired |-> params.responseRequired,
   source |-> params.source, messageId |-> params.messageId,
   submittedAt |-> t, completedAt |-> NoTime,
   status |-> "assigned", result |-> None, error |-> None]

\* the TaskInfo submitTask creates
newTaskInfo(params, target, t) ==
  [task |-> [priority |-> params.priority, parameters |-> params.parameters],
   destinationAgent |-> target, responseRequired |-> params.responseRequired,
   source |-> params.source, messageId |-> params.messageId,
   submittedAt |-> t, completedAt |-> NoTime,
   status |-> "pending", result |-> None, error |-> None]

\* a bus message, reduced to the fields the orchestration reads
Message(type, src, dst, taskId, status, correlationId) ==
  [messageType |-> type, source |-> src, destination |-> dst,
   taskId |-> taskId, status |-> status, correlationId |-> correlationId,
   messageId |-> None]

\* createMessageId() of the TASK_REQUEST and of the TASK_CANCEL the
\* orchestrator publishes for a task (each is published at most once per task
\* and call, so the task id stands for the fresh id)
requestId(id) == "msg_task_request_" \o ToString(id)
cancelId(id) == "msg_task_cancel_" \o ToString(id)

\* the TASK_REQUEST assignTaskToAgent publishes
TaskRequest(dst, id) ==
  [Message("task_request", MCP, dst, id, None, None) EXCEPT !.messageId = requestId(id)]

\* the TASK_CANCEL cancelTask publishes
TaskCancel(dst, id) ==
  [Message("task_cancel", MCP, dst, id, None, None) EXCEPT !.messageId = cancelId(id)]

\* the status handleTaskResponse stores, when every response means failure
taskStatusOfNever(status) == "failed"

\* the status handleTaskResponse stores for a response status
taskStatusOf(status) ==
  IF status = StatusCode_SUCCESS THEN "completed" ELSE "failed"

\* handleTaskResponse: its effect on the task registry
handleTaskResponse(reg, id, status, result, errorDetails, t) ==
  IF reg[id].status = None
    THEN reg
    ELSE [reg EXCEPT ![id].completedAt = t,
                     ![id].status = taskStatusOf(status),
                     ![id].result = result,
                     ![id].error = errorDetails]

\* a handleTaskResponse that forwards to whatever requester is recorded,
\* whether or not a response was required
forwardedResponsesAlways(reg, id, status) ==
  IF reg[id].source # None
    THEN <<Message("task_response", MCP, reg[id].source, id, status, reg[id].messageId)>>
    ELSE <<>>

\* handleTaskResponse: the response it forwards to the requester
forwardedResponses(reg, id, status) ==
  IF reg[id].status # None /\ reg[id].responseRequired /\ reg[id].source # None
    THEN <<Message("task_response", MCP, reg[id].source, id, status, reg[id].messageId)>>
    ELSE <<>>

\* what the agents' executeTask does with its input: it returns the
\* parameters, and throws on the input "bad"
executeTaskThrows(parameters) == parameters = "bad"

\* an addTask whose catch block forgets to record the error
addTaskSettledSwallows(task) ==
  IF executeTaskThrows(task.parameters)
    THEN [task EXCEPT !.executing = FALSE, !.completedAt = TRUE]
    ELSE [task EXCEPT !.executing = FALSE, !.completedAt = TRUE, !.result = task.parameters]

\* BaseAgent.addTask after executeTask has settled
addTaskSettled(task) ==
  IF executeTaskThrows(task.parameters)
    THEN [task EXCEPT !.executing = FALSE, !.completedAt = TRUE, !.error = "execution_error"]
    ELSE [task EXCEPT !.executing = FALSE, !.completedAt = TRUE, !.result = task.parameters]

\* the payload status handleTaskRequest sends for a settled task
responseStatus(task) == IF task.error # None THEN "error" ELSE "success"

\* BaseAgent.handleTaskCancel: its effect on the agent's task
handleTaskCancel(task) ==
  IF task.agent # None /\ ~task.completedAt
    THEN [task EXCEPT !.completedAt = TRUE, !.error = "Task cancelled"]
    ELSE task

\* BaseAgent.handleTaskCancel: the payload of the response it sends
cancelResponse(task) ==
  IF task.agent # None
    THEN [status |-> "cancelled", errorDetails |-> None]
    ELSE [status |-> "error", errorDetails |-> "Task not found"]

\* what the comparator reads of the TaskInfo a queue entry refers to
queued(reg, id) ==
  [task |-> [id |-> id, priority |-> reg[id].task.priority],
   submittedAt |-> reg[id].submittedAt]

\* taskQueue.enqueue(taskInfo): the queue holds references to the TaskInfo
\* objects of the registry, kept here as task ids
queueOrder(reg, items, id) ==
  LET sorted == enqueue([k \in 1..Len(items) |-> queued(reg, items[k])], queued(reg, id))
  IN  [k \in 1..Len(sorted) |-> sorted[k].task.id]

MInit ==
  /\ running = FALSE
  /\ agents = {}
  /\ agentStatus = [a \in AllAgentTypes |-> None]
  /\ taskRegistry = [id \in TaskIds |-> NoTask]
  /\ taskQueue = <<>>
  /\ taskCount = 0
  /\ now = 0
  /\ subscribers = {}
  /\ agentRunning = [a \in ManagedAgents |-> FALSE]
  /\ agentTasks = [id \in TaskIds |-> NoAgentTask]
  /\ published = <<>>
  /\ last = [op |-> "init", id |-> 0, ok |-> TRUE, returned |-> None,
             taskType |-> None, destinationAgent |-> None]

\* history record of a step: operation, task id, success, returned status
Last(op, id, ok) ==
  [op |-> op, id |-> id, ok |-> ok, returned |-> None,
   taskType |-> None, destinationAgent |-> None]

\* MasterControlProgram.initialize(): the orchestrator and the two agents
\* subscribe, register and report their status; the dispatch loop starts
Initialize ==
  /\ ~running
  /\ running' = TRUE
  /\ subscribers' = subscribers \cup AllAgentTypes
  /\ agents' = ManagedAgents
  /\ agentRunning' = [a \in ManagedAgents |-> TRUE]
  /\ agentStatus' = [a \in AllAgentTypes |-> "running"]
  /\ published' = <<Message("agent_registration", MCP, MCP, 0, None, None),
                    Message("status_update", MCP, MCP, 0, "running", None),
                    Message("agent_registration", DATA_VALIDATION, MCP, 0, None, None),
                    Message("agent_registration", VALUATION, MCP, 0, None, None),
                    Message("status_update", DATA_VALIDATION, MCP, 0, "running", None),
                    Message("status_update", VALUATION, MCP, 0, "running", None)>>
  /\ last' = Last("initialize", 0, TRUE)
  /\ UNCHANGED <<taskRegistry, taskQueue, taskCount, now, agentTasks>>

\* submitTask(params) with a destination that resolves
SubmitUpTo(params, limit) ==
  /\ running
  /\ taskCount < limit
  /\ targetAgent(params.taskType, params.destinationAgent) # None
  /\ LET id == taskCount + 1
         reg == [taskRegistry EXCEPT ![id] =
                   newTaskInfo(params,
                               targetAgent(params.taskType, params.destinationAgent), now)]
     IN  /\ taskRegistry' = reg
         /\ taskQueue' = queueOrder(reg, taskQueue, id)
         /\ last' = [op |-> "submitTask", id |-> id, ok |-> TRUE, returned |-> "pending",
                     taskType |-> params.taskType,
                     destinationAgent |-> params.destinationAgent]
  /\ taskCount' = taskCount + 1
  /\ published' = <<>>
  /\ UNCHANGED <<running, agents, agentStatus, now, subscribers, agentRunning, agentTasks>>

SubmitTask(params) == SubmitUpTo(params, MaxTasks)

\* submitTask(params) that throws 'No suitable agent found'
SubmitTaskFails(params) ==
  /\ running
  /\ taskCount < MaxTasks
  /\ targetAgent(params.taskType, params.destinationAgent) = None
  /\ last' = [op |-> "submitTask", id |-> 0, ok |-> FALSE, returned |-> None,
              taskType |-> params.taskType,
              destinationAgent |-> params.destinationAgent]
  /\ published' = <<>>
  /\ UNCHANGED <<running, agents, agentStatus, taskRegistry, taskQueue, taskCount, now,
                 subscribers, agentRunning, agentTasks>>

\* may the dispatch loop hand the head of the queue to its agent?
canAssign(id) ==
  /\ taskRegistry[id].destinationAgent \in agents
  /\ agentStatus[taskRegistry[id].destinationAgent] = "running"

\* one iteration of the processTaskQueue loop, with the synchronous delivery
\* of the TASK_REQUEST to the agent (handleTaskRequest up to executeTask)
ProcessQueue ==
  /\ IF ~isEmpty(taskQueue) /\ canAssign(peek(taskQueue))
       THEN LET id == peek(taskQueue)
                dst == taskRegistry[id].destinationAgent
                request == TaskRequest(dst, id)
                delivered == dst \in subscribers
                started == delivered /\ agentRunning[dst]
                \* addTask throws when the agent is not running: error response
                reg1 == [taskRegistry EXCEPT ![id].status = "assigned"]
                errResp == Message("task_response", dst, MCP, id, "error", requestId(id))
            IN  /\ taskQueue' = dequeue(taskQueue)
                /\ agentTasks' = IF started
                                   THEN [agentTasks EXCEPT ![id] =
                                           [agent |-> dst,
                                            parameters |-> taskRegistry[id].task.parameters,
                                            executing |-> TRUE, completedAt |-> FALSE,
                                            result |-> None, error |-> None]]
                                   ELSE agentTasks
                /\ taskRegistry' =
                     IF delivered /\ ~started /\ MCP \in subscribers
                       THEN handleTaskResponse(reg1, id, "error", None, "Agent not running", now)
                       ELSE reg1
                /\ published' =
                     IF delivered /\ ~started
                       THEN <<request, errResp>>
                              \o (IF MCP \in subscribers
                                    THEN forwardedResponses(reg1, id, "error") ELSE <<>>)
                       ELSE <<request>>
                /\ last' = Last("dispatch", id, TRUE)
       ELSE /\ last' = Last("dispatch", 0, FALSE)
            /\ published' = <<>>
            /\ UNCHANGED <<taskRegistry, taskQueue, agentTasks>>
  /\ UNCHANGED <<running, agents, agentStatus, taskCount, now, subscribers, agentRunning>>

\* the iteration runs when the setImmediate callback armed by
\* processTaskQueue fires; one is armed as long as the MCP is running
Dispatch == running /\ ProcessQueue

\* executeTask of task id settles at its agent: addTask records the outcome,
\* handleTaskRequest publishes the TASK_RESPONSE, which the orchestrator
\* handles synchronously (handleTaskResponse)
SettleTask(id) ==
  /\ agentTasks[id].executing
  /\ LET task == addTaskSettled(agentTasks[id])
         status == responseStatus(task)
         response == Message("task_response", task.agent, MCP, id, status, requestId(id))
     IN  /\ agentTasks' = [agentTasks EXCEPT ![id] = task]
         /\ taskRegistry' =
              IF MCP \in subscribers
                THEN handleTaskResponse(taskRegistry, id, status, task.result, task.error, now)
                ELSE taskRegistry
         /\ published' =
              <<response>> \o (IF MCP \in subscribers
                                 THEN forwardedResponses(taskRegistry, id, status)
                                 ELSE <<>>)
         /\ last' = Last("settle", id, status = "success")
  /\ UNCHANGED <<running, agents, agentStatus, taskQueue, taskCount, now,
                 subscribers, agentRunning>>

\* cancelTask(taskId) on a task that may be cancelled; for an assigned task
\* the TASK_CANCEL, the agent's reply and its handling are part of the call
CancelTask(id) ==
  /\ running
  /\ taskRegistry[id].status \in {"pending", "assigned", "cancelled"}
  /\ LET info == taskRegistry[id]
         dst == info.destinationAgent
         notify == info.status = "assigned"
         delivered == notify /\ dst \in subscribers
         reply == cancelResponse(agentTasks[id])
         replied == delivered /\ MCP \in subscribers
         reg1 == IF replied
                   THEN handleTaskResponse(taskRegistry, id, reply.status, None,
                                           reply.errorDetails, now)
                   ELSE taskRegistry
     IN  /\ agentTasks' = IF delivered
                            THEN [agentTasks EXCEPT ![id] = handleTaskCancel(agentTasks[id])]
                            ELSE agentTasks
         /\ taskRegistry' = [reg1 EXCEPT ![id].status = "cancelled",
                                         ![id].completedAt = now]
         /\ published' =
              (IF notify THEN <<TaskCancel(dst, id)>> ELSE <<>>)
              \o (IF delivered
                    THEN <<Message("task_response", dst, MCP, id, reply.status, cancelId(id))>>
                    ELSE <<>>)
              \o (IF replied THEN forwardedResponses(taskRegistry, id, reply.status) ELSE <<>>)
         /\ last' = [Last("cancelTask", id, TRUE) EXCEPT !.returned = "cancelled"]
  /\ UNCHANGED <<running, agents, agentStatus, taskQueue, taskCount, now,
                 subscribers, agentRunning>>

\* cancelTask(taskId) that throws: unknown id, or a completed or failed task
CancelTaskFails(id) ==
  /\ running
  /\ taskRegistry[id].status \in {None, "completed", "failed"}
  /\ last' = Last("cancelTask", id, FALSE)
  /\ published' = <<>>
  /\ UNCHANGED <<running, agents, agentStatus, taskRegistry, taskQueue, taskCount, now,
                 subscribers, agentRunning, agentTasks>>

\* unregisterAgent(agentType)
UnregisterAgent(a) ==
  /\ a \in agents
  /\ agents' = agents \ {a}
  /\ agentStatus' = [agentStatus EXCEPT ![a] = None]
  /\ last' = Last("unregisterAgent", 0, TRUE)
  /\ published' = <<>>
  /\ UNCHANGED <<running, taskRegistry, taskQueue, taskCount, now, subscribers,
                 agentRunning, agentTasks>>

\* the periodic sendStatusUpdate of a running agent, handled by the
\* orchestrator's handleStatusUpdate
AgentStatusUpdate(a) ==
  /\ agentRunning[a]
  /\ agentStatus' = IF MCP \in subscribers
                      THEN [agentStatus EXCEPT ![a] = "running"]
                      ELSE agentStatus
  /\ published' = <<Message("status_update", a, MCP, 0, "running", None)>>
  /\ last' = Last("statusUpdate", 0, TRUE)
  /\ UNCHANGED <<running, agents, taskRegistry, taskQueue, taskCount, now, subscribers,
                 agentRunning, agentTasks>>

\* the agents whose shutdown() is called while the orchestrator runs
ShutdownInputs == {DATA_VALIDATION}

\* a shutdown that marks every task of the agent, finished or not
shutdownTaskAll(task) ==
  [task EXCEPT !.completedAt = TRUE, !.error = "Agent shutdown"]

\* BaseAgent.shutdown: what its clean-up loop does to one task of the agent
shutdownTask(task) ==
  IF ~task.completedAt
    THEN [task EXCEPT !.completedAt = TRUE, !.error = "Agent shutdown"]
    ELSE task

\* BaseAgent.shutdown() of agent a; an executeTask in flight is not stopped
\* and settles later (SettleTask)
AgentShutdown(a) ==
  /\ IF agentRunning[a]
       THEN /\ agentRunning' = [agentRunning EXCEPT ![a] = FALSE]
            /\ subscribers' = subscribers \ {a}
            /\ agentTasks' = [id \in TaskIds |->
                                IF agentTasks[id].agent = a
                                  THEN shutdownTask(agentTasks[id])
                                  ELSE agentTasks[id]]
       ELSE UNCHANGED <<agentRunning, subscribers, agentTasks>>
  /\ published' = <<>>
  /\ last' = [Last("shutdown", 0, agentRunning[a]) EXCEPT !.destinationAgent = a]
  /\ UNCHANGED <<running, agents, agentStatus, taskRegistry, taskQueue, taskCount, now>>

\* the task ids and statuses of the TASK_RESPONSE messages other bus
\* participants publish to the orchestrator
ResponseStatuses == {StatusCode_SUCCESS, "error"}

\* a TASK_RESPONSE for a task id the registry does not hold reaches the
\* orchestrator: handleMessage -> handleSpecializedMessage -> handleTaskResponse
UnknownTaskResponse(id, status) ==
  /\ running
  /\ MCP \in subscribers
  /\ taskRegistry[id].status = None
  /\ taskRegistry' = handleTaskResponse(taskRegistry, id, status, None, None, now)
  /\ published' = <<Message("task_response", "user_interaction_agent", MCP, id, status, None)>>
                     \o forwardedResponses(taskRegistry, id, status)
  /\ last' = Last("taskResponse", id, FALSE)
  /\ UNCHANGED <<running, agents, agentStatus, taskQueue, taskCount, now, subscribers,
                 agentRunning, agentTasks>>

\* wall-clock time passes
Tick ==
  /\ now < MaxClock
  /\ now' = now + 1
  /\ last' = Last("tick", 0, TRUE)
  /\ published' = <<>>
  /\ UNCHANGED <<running, agents, agentStatus, taskRegistry, taskQueue, taskCount,
                 subscribers, agentRunning, agentTasks>>

\* the task ids that the calls and messages of these runs name
CalledIds == 1..MaxTasks

MNext ==
  \/ Initialize
  \/ \E params \in SubmitInputs : SubmitTask(params)
  \/ \E params \in SubmitInputs : SubmitTaskFails(params)
  \/ Dispatch
  \/ \E id \in CalledIds : SettleTask(id)
  \/ \E id \in CalledIds : CancelTask(id)
  \/ \E id \in CalledIds : CancelTaskFails(id)
  \/ \E a \in UnregisterInputs : UnregisterAgent(a)
  \/ \E a \in ManagedAgents : AgentStatusUpdate(a)
  \/ \E id \in CalledIds, status \in ResponseStatuses : UnknownTaskResponse(id, status)
  \/ Tick

\* a TASK_CANCEL (requiresResponse true) that another agent publishes for a
\* task to the agent that has it: handleTaskCancel and its response
TaskCancelMessage(id) ==
  /\ agentTasks[id].agent # None
  /\ agentTasks[id].agent \in subscribers
  /\ LET dst == agentTasks[id].agent
         src == "user_interaction_agent"
         reply == cancelResponse(agentTasks[id])
     IN  /\ agentTasks' = [agentTasks EXCEPT ![id] = handleTaskCancel(agentTasks[id])]
         /\ published' =
              <<[Message("task_cancel", src, dst, id, None, None)
                   EXCEPT !.messageId = cancelId(id)],
                Message("task_response", dst, src, id, reply.status, cancelId(id))>>
  /\ last' = Last("taskCancel", id, ~agentTasks[id].completedAt)
  /\ UNCHANGED <<running, agents, agentStatus, taskRegistry, taskQueue, taskCount, now,
                 subscribers, agentRunning>>

\* the orchestrator and its agents, with agents that are shut down while the
\* orchestrator runs
AgentsNext ==
  \/ MNext
  \/ \E a \in ShutdownInputs : AgentShutdown(a)

(***************************************************************************)
(* PART 4. AgentCommunicationBus                                           *)
(* src/shared/protocols/agent-communication.ts                             *)
(*                                                                         *)
(* subscribers is a Map from key to an array of handlers; a Map iterates   *)
(* in insertion order, so it is a sequence of entries here.  A message in  *)
(* the log is identified by its id, the rank of its publish.  A handler is *)
(* a function the bus calls synchronously: it returns, it throws, or it    *)
(* calls its own unsubscribe function before returning (an agent that      *)
(* shuts down on the message it receives).                                 *)
(***************************************************************************)
MAX_LOG_SIZE == 1000

MaxBusPublishes == 2

MaxLogPublishes == 1002

BusKeys == {"a", "b", "broadcast"}

BusSources == {"a", "b"}

Handlers == {"h1", "h2", "h3"}

\* the agent whose method the handler function is bound to
owner == [h \in Handlers |-> IF h = "h3" THEN "b" ELSE "a"]

behaviour == [h \in Handlers |->
                CASE h = "h1" -> "returns"
                  [] h = "h2" -> "throws"
                  [] h = "h3" -> "unsubscribes"]

VARIABLES busSubscribers, messageLog, busCount, busLast

busVars == <<busSubscribers, messageLog, busCount, busLast>>

has(subs, agentType) == \E i \in 1..Len(subs) : subs[i].key = agentType

get(subs, agentType) ==
  IF has(subs, agentType)
    THEN subs[CHOOSE i \in 1..Len(subs) : subs[i].key = agentType].handlers
    ELSE <<>>

keys(subs) == [i \in 1..Len(subs) |-> subs[i].key]

\* the key a registered handler was subscribed under (its unsubscribe
\* function closes over it)
keyOf(subs, handler) ==
  CHOOSE k \in BusKeys : \E i \in 1..Len(get(subs, k)) : get(subs, k)[i] = handler

registered(subs, handler) ==
  \E k \in BusKeys : \E i \in 1..Len(get(subs, k)) : get(subs, k)[i] = handler

subscribe(subs, agentType, handler) ==
  IF has(subs, agentType)
    THEN [i \in 1..Len(subs) |->
            IF subs[i].key = agentType
              THEN [subs[i] EXCEPT !.handlers = Append(@, handler)]
              ELSE subs[i]]
    ELSE Append(subs, [key |-> agentType, handlers |-> <<handler>>])

\* Array.prototype.indexOf, 0 for "not found"
indexOf(handlers, handler) ==
  IF \E i \in 1..Len(handlers) : handlers[i] = handler
    THEN CHOOSE i \in 1..Len(handlers) :
           /\ handlers[i] = handler
           /\ \A j \in 1..(i - 1) : handlers[j] # handler
    ELSE 0

\* handlers.splice(index, 1)
splice(handlers, index) ==
  SubSeq(handlers, 1, index - 1) \o SubSeq(handlers, index + 1, Len(handlers))

unsubscribe(subs, agentType, handler) ==
  IF ~has(subs, agentType) THEN subs
  ELSE
    LET handlers == get(subs, agentType)
        index    == indexOf(handlers, handler)
        left     == IF index # 0 THEN splice(handlers, index) ELSE handlers
    IN  IF Len(left) = 0
          THEN SelectSeq(subs, LAMBDA e : e.key # agentType)
          ELSE [i \in 1..Len(subs) |->
                  IF subs[i].key = agentType
                    THEN [subs[i] EXCEPT !.handlers = left]
                    ELSE subs[i]]

\* the log after push and trim; slice(-MAX_LOG_SIZE) keeps the last entries
logMessageKeepsOldest(log, message) ==
  LET pushed == Append(log, message.id)
  IN  IF Len(pushed) > MAX_LOG_SIZE
        THEN SubSeq(pushed, 1, MAX_LOG_SIZE)
        ELSE pushed

logMessage(log, message) ==
  LET pushed == Append(log, message.id)
  IN  IF Len(pushed) > MAX_LOG_SIZE
        THEN SubSeq(pushed, Len(pushed) - MAX_LOG_SIZE + 1, Len(pushed))
        ELSE pushed

\* what the call handler(message) does to the subscriber map
callHandler(subs, handler) ==
  IF behaviour[handler] = "unsubscribes"
    THEN unsubscribe(subs, keyOf(subs, handler), handler)
    ELSE subs

\* does an exception of the handler leave the try block around its call
propagatesUncaught(handler) == behaviour[handler] = "throws"

propagates(handler) == FALSE

\* for (const handler of handlers): the array iterator reads handlers[i]
\* of the live array and stops when i reaches its current length
RECURSIVE deliver(_, _, _, _)
deliver(subs, agentType, i, acc) ==
  LET handlers == get(subs, agentType)
  IN  IF i > Len(handlers)
        THEN [subs |-> subs, invoked |-> acc, threw |-> FALSE]
        ELSE
          LET handler == handlers[i]
              after   == callHandler(subs, handler)
              inv     == Append(acc, [handler |-> handler, key |-> agentType])
          IN  IF propagates(handler)
                THEN [subs |-> after, invoked |-> inv, threw |-> TRUE]
                ELSE deliver(after, agentType, i + 1, inv)

\* for (const [agentType, handlers] of this.subscribers.entries()): an
\* entry deleted before it is reached is not visited
RECURSIVE fanOut(_, _, _, _, _)
fanOut(subs, agentTypes, j, source, acc) ==
  IF j > Len(agentTypes)
    THEN [subs |-> subs, invoked |-> acc, threw |-> FALSE]
  ELSE IF agentTypes[j] = source \/ ~has(subs, agentTypes[j])
    THEN fanOut(subs, agentTypes, j + 1, source, acc)
  ELSE
    LET r == deliver(subs, agentTypes[j], 1, acc)
    IN  IF r.threw THEN r
        ELSE fanOut(r.subs, agentTypes, j + 1, source, r.invoked)

publish(subs, message) ==
  IF message.destination = "broadcast"
    THEN fanOut(subs, keys(subs), 1, message.source, <<>>)
    ELSE deliver(subs, message.destination, 1, <<>>)

NoMessage == [id |-> 0, source |-> None, destination |-> None]

BusLast(op, message, r, before) ==
  [op |-> op, message |-> message, invoked |-> r.invoked, threw |-> r.threw,
   before |-> before]

Quiet == [invoked |-> <<>>, threw |-> FALSE]

BusInit ==
  /\ busSubscribers = <<>>
  /\ messageLog = <<>>
  /\ busCount = 0
  /\ busLast = BusLast("new", NoMessage, Quiet, <<>>)

\* a handler function is registered once at a time, as an agent's bound
\* handleMessage is
BusSubscribe(agentType, handler) ==
  /\ ~registered(busSubscribers, handler)
  /\ busSubscribers' = subscribe(busSubscribers, agentType, handler)
  /\ busLast' = BusLast("subscribe", NoMessage, Quiet, <<>>)
  /\ UNCHANGED <<messageLog, busCount>>

\* the function returned by subscribe is called outside a delivery
BusUnsubscribe(handler) ==
  /\ registered(busSubscribers, handler)
  /\ busSubscribers' =
       unsubscribe(busSubscribers, keyOf(busSubscribers, handler), handler)
  /\ busLast' = BusLast("unsubscribe", NoMessage, Quiet, <<>>)
  /\ UNCHANGED <<messageLog, busCount>>

BusPublish(source, destination) ==
  LET message == [id |-> busCount + 1, source |-> source,
                  destination |-> destination]
      r       == publish(busSubscribers, message)
  IN  /\ busCount' = busCount + 1
      /\ messageLog' = logMessage(messageLog, message)
      /\ busSubscribers' = r.subs
      /\ busLast' = BusLast("publish", message, r, busSubscribers)

BusNext ==
  \/ \E k \in BusKeys, h \in Handlers : BusSubscribe(k, h)
  \/ \E h \in Handlers : BusUnsubscribe(h)
  \/ \E s \in BusSources, d \in BusKeys :
       busCount < MaxBusPublishes /\ BusPublish(s, d)

\* the bus under a long run of publishes, one handler coming and going
LogNext ==
  \/ BusSubscribe("a", "h1")
  \/ BusUnsubscribe("h1")
  \/ \E d \in {"a", "broadcast"} :
       busCount < MaxLogPublishes /\ BusPublish("b", d)

(***************************************************************************)
(* PART 5. EnhancedAgentManager                                            *)
(* src/server/agents/enhanced-agent-manager.ts                             *)
(*                                                                         *)
(* One agent id.  The agent instance is what the manager sees of it:       *)
(* whether its initialize() resolves and what its getStatus() returns.     *)
(* The awaits of the manager (agent.initialize, agent.shutdown) resolve    *)
(* without a timer running in between, so a call is one step.              *)
(***************************************************************************)
\* config.maxRetries
maxRetries == 2

\* the number of failed health checks checkAgentHealth restarts at
unhealthyThreshold == 3

MaxChecks == 12

MaxInitFailures == 3

AgentStatus_READY == "ready"
AgentStatus_ERROR == "error"
AgentStatus_OFFLINE == "offline"

VARIABLES
  agentConfigs,    \* EnhancedAgentManager.agentConfigs has the agent id
  mgrAgents,       \* EnhancedAgentManager.agents has the agent id
  instanceStatus,  \* what getStatus() of the instance in agents returns
  health,          \* healthStatuses.get(agentId): status and healthCheck
  healthChecks,    \* EnhancedAgentManager.healthChecks has an interval
  retryTimers,     \* pending setTimeout retries of startAgent
  checks,          \* history: number of health checks made
  initFailures,    \* history: number of initialize() calls that failed
  healthRestarts,  \* history: restarts by checkAgentHealth in the current
                   \* run of checks that all found the agent unhealthy
  mgrLast          \* history: the last call and what it did

mgrVars == <<agentConfigs, mgrAgents, instanceStatus, health, healthChecks,
             retryTimers, checks, initFailures, healthRestarts, mgrLast>>

NoHealth == [status |-> None, isHealthy |-> FALSE,
             consecutiveFailures |-> 0, restartAttempts |-> 0]

\* initializeHealthStatus
initialHealth == [status |-> AgentStatus_OFFLINE, isHealthy |-> FALSE,
                  consecutiveFailures |-> 0, restartAttempts |-> 0]

\* the manager's state a call works on
mgrState == [mgrAgents |-> mgrAgents, instanceStatus |-> instanceStatus,
             health |-> health, healthChecks |-> healthChecks,
             retryTimers |-> retryTimers, threw |-> FALSE]

\* startAgent(agentId): initOk tells whether agent.initialize() resolves
startAgent(s, initOk) ==
  IF initOk
    THEN [s EXCEPT !.mgrAgents = TRUE,
                   !.instanceStatus = AgentStatus_READY,
                   !.healthChecks = TRUE,
                   !.health.status = AgentStatus_READY,
                   !.health.isHealthy = TRUE,
                   !.threw = FALSE]
    ELSE [s EXCEPT !.mgrAgents = TRUE,
                   !.instanceStatus = AgentStatus_ERROR,
                   !.health.status = AgentStatus_ERROR,
                   !.health.isHealthy = FALSE,
                   !.health.consecutiveFailures = @ + 1,
                   !.retryTimers = IF s.health.restartAttempts < maxRetries
                                     THEN @ + 1 ELSE @,
                   !.threw = TRUE]

\* stopAgent(agentId)
stopAgent(s) ==
  IF ~s.mgrAgents THEN s
  ELSE [s EXCEPT !.healthChecks = FALSE,
                 !.mgrAgents = FALSE,
                 !.instanceStatus = None,
                 !.health.status = AgentStatus_OFFLINE]

\* a restart that keeps the counters of the health record
restartAgentKeepsCounters(s, initOk) == startAgent(stopAgent(s), initOk)

\* restartAgent(agentId)
restartAgent(s, initOk) ==
  LET stopped == stopAgent(s)
      reset   == [stopped EXCEPT !.health.consecutiveFailures = 0,
                                 !.health.restartAttempts = 0]
  IN  startAgent(reset, initOk)

\* does this health check restart the agent
restarts(s) ==
  /\ s.mgrAgents
  /\ s.instanceStatus = AgentStatus_ERROR
  /\ s.health.consecutiveFailures + 1 >= unhealthyThreshold
  /\ s.health.restartAttempts < maxRetries

\* checkAgentHealth(agentId) for an agent in the map
checkAgentHealth(s, initOk) ==
  LET status == s.instanceStatus
      seen   == [s EXCEPT !.health.status = status,
                          !.health.isHealthy = (status # AgentStatus_ERROR)]
  IN  IF ~s.mgrAgents THEN s
      ELSE IF status # AgentStatus_ERROR
        THEN [seen EXCEPT !.health.consecutiveFailures = 0]
      ELSE IF restarts(s)
        THEN LET counted == [seen EXCEPT !.health.consecutiveFailures = @ + 1,
                                         !.health.restartAttempts = @ + 1]
                 r == restartAgent(counted, initOk)
             IN  IF r.threw
                   \* the catch block of checkAgentHealth
                   THEN [r EXCEPT !.health.isHealthy = FALSE,
                                  !.health.consecutiveFailures = @ + 1,
                                  !.health.status = AgentStatus_ERROR,
                                  !.threw = FALSE]
                   ELSE r
      ELSE [seen EXCEPT !.health.consecutiveFailures = @ + 1]

MgrLast(op, restarted, threw) == [op |-> op, restarted |-> restarted, threw |-> threw]

MgrInit ==
  /\ agentConfigs = FALSE
  /\ mgrAgents = FALSE
  /\ instanceStatus = None
  /\ health = NoHealth
  /\ healthChecks = FALSE
  /\ retryTimers = 0
  /\ checks = 0
  /\ initFailures = 0
  /\ healthRestarts = 0
  /\ mgrLast = MgrLast("new", FALSE, FALSE)

\* the state after a call, from the record the call computed
Becomes(s) ==
  /\ mgrAgents' = s.mgrAgents
  /\ instanceStatus' = s.instanceStatus
  /\ health' = s.health
  /\ healthChecks' = s.healthChecks
  /\ retryTimers' = s.retryTimers

\* may initialize() of a new instance resolve (initOk), or fail once more
InitOutcomes == {TRUE} \cup (IF initFailures < MaxInitFailures THEN {FALSE} ELSE {})

RegisterAgent ==
  /\ ~agentConfigs /\ ~mgrAgents
  /\ agentConfigs' = TRUE
  /\ health' = initialHealth
  /\ mgrLast' = MgrLast("registerAgent", FALSE, FALSE)
  /\ UNCHANGED <<mgrAgents, instanceStatus, healthChecks, retryTimers, checks,
                 initFailures, healthRestarts>>

StartAgent(initOk) ==
  /\ agentConfigs
  /\ LET s == startAgent(mgrState, initOk)
     IN  /\ Becomes(s)
         /\ mgrLast' = MgrLast("startAgent", FALSE, s.threw)
  /\ initFailures' = IF initOk THEN initFailures ELSE initFailures + 1
  /\ healthRestarts' = 0
  /\ UNCHANGED <<agentConfigs, checks>>

\* restartAgent(agentId) called by a user of the manager
RestartAgent(initOk) ==
  /\ agentConfigs
  /\ LET s == restartAgent(mgrState, initOk)
     IN  /\ Becomes(s)
         /\ mgrLast' = MgrLast("restartAgent", FALSE, s.threw)
  /\ initFailures' = IF initOk THEN initFailures ELSE initFailures + 1
  /\ healthRestarts' = 0
  /\ UNCHANGED <<agentConfigs, checks>>

\* a retry timer set by a failed startAgent fires
RetryStart(initOk) ==
  /\ retryTimers > 0
  /\ LET due == [mgrState EXCEPT !.retryTimers = @ - 1,
                                 !.health.restartAttempts = @ + 1]
         s   == startAgent(due, initOk)
     IN  /\ Becomes(s)
         /\ mgrLast' = MgrLast("retry", FALSE, s.threw)
  /\ initFailures' = IF initOk THEN initFailures ELSE initFailures + 1
  /\ UNCHANGED <<agentConfigs, checks, healthRestarts>>

StopAgent ==
  /\ mgrAgents
  /\ Becomes(stopAgent(mgrState))
  /\ mgrLast' = MgrLast("stopAgent", FALSE, FALSE)
  /\ healthRestarts' = 0
  /\ UNCHANGED <<agentConfigs, checks, initFailures>>

\* the interval set by startHealthCheck fires
CheckAgentHealth(initOk) ==
  /\ healthChecks
  /\ checks < MaxChecks
  /\ LET s == checkAgentHealth(mgrState, initOk)
     IN  /\ Becomes(s)
         /\ mgrLast' = MgrLast("checkAgentHealth", restarts(mgrState), FALSE)
         /\ healthRestarts' =
              IF instanceStatus # AgentStatus_ERROR THEN 0
              ELSE IF restarts(mgrState) THEN healthRestarts + 1
              ELSE healthRestarts
         /\ initFailures' = IF restarts(mgrState) /\ ~initOk
                              THEN initFailures + 1 ELSE initFailures
  /\ checks' = checks + 1
  /\ UNCHANGED agentConfigs

\* the running instance gets into its error state
InstanceFails ==
  /\ mgrAgents
  /\ instanceStatus = AgentStatus_READY
  /\ instanceStatus' = AgentStatus_ERROR
  /\ mgrLast' = MgrLast("instanceFails", FALSE, FALSE)
  /\ UNCHANGED <<agentConfigs, mgrAgents, health, healthChecks, retryTimers, checks,
                 initFailures, healthRestarts>>

\* the instance leaves its error state by itself
InstanceRecovers ==
  /\ mgrAgents
  /\ instanceStatus = AgentStatus_ERROR
  /\ instanceStatus' = AgentStatus_READY
  /\ mgrLast' = MgrLast("instanceRecovers", FALSE, FALSE)
  /\ healthRestarts' = 0
  /\ UNCHANGED <<agentConfigs, mgrAgents, health, healthChecks, retryTimers, checks,
                 initFailures>>

MgrNext ==
  \/ RegisterAgent
  \/ \E initOk \in InitOutcomes : StartAgent(initOk)
  \/ \E initOk \in InitOutcomes : RetryStart(initOk)
  \/ \E initOk \in InitOutcomes : RestartAgent(initOk)
  \/ StopAgent
  \/ \E initOk \in InitOutcomes : CheckAgentHealth(initOk)
  \/ InstanceFails
  \/ InstanceRecovers

(***************************************************************************)
(* The specifications                                                      *)
(***************************************************************************)
(***************************************************************************)
(* PART 6. AgentResilienceTester                                           *)
(* src/server/utils/agent-resilience-tester.ts                             *)
(*                                                                         *)
(* One test against the agent of PART 5.  runTest runs executeTest up to   *)
(* its first await before it returns; the fault routines modelled are      *)
(* runAgentCrashTest and runNetworkPartitionTest.  Every later step is a   *)
(* timer of the harness firing.                                            *)
(***************************************************************************)
AGENT_CRASH == "AGENT_CRASH"
NETWORK_PARTITION == "NETWORK_PARTITION"

\* options.failureCount of the tests that are run
MaxFailureCount == 2

TestOptions ==
  [failureType : {AGENT_CRASH, NETWORK_PARTITION}, failureCount : 0..MaxFailureCount]

VARIABLES
  activeTests,   \* AgentResilienceTester.activeTests has the test id
  hardStop,      \* the setTimeout made by runTest is pending
  testResults,   \* testResults.get(testId), NoResult before runTest
  routine,       \* where executeTest of the test is
  testerLast     \* history: the last call of the harness

testerVars == <<activeTests, hardStop, testResults, routine, testerLast>>

NoResult == [failureType |-> None, failureCount |-> 0, successCount |-> 0,
             ended |-> FALSE, recovered |-> FALSE, agentRestarted |-> FALSE]

\* the TestResult runTest creates
newTestResult(options) ==
  [failureType |-> options.failureType, failureCount |-> 0, successCount |-> 0,
   ended |-> FALSE, recovered |-> FALSE, agentRestarted |-> FALSE]

\* the routine of a test: where it waits, and its locals failureCount (the
\* configured number of iterations) and initialAgentHealth.restartAttempts
NoRoutine == [pc |-> "none", initialAttempts |-> 0, failureCount |-> 0]

\* runAgentCrashTest up to its first await: the iterations it makes before
\* it waits or returns.  active is activeTests.has(testId) at the check.
crashesInjected(active, options) ==
  IF options.failureCount > 0 /\ active THEN 1 ELSE 0

\* a stopTest that forgets the result of the test
stopTestDropsResult(active, pending, result) ==
  IF active
    THEN [activeTests |-> FALSE, hardStop |-> FALSE, testResults |-> NoResult]
    ELSE [activeTests |-> active, hardStop |-> pending, testResults |-> result]

\* stopTest(testId): clearTimeout, activeTests.delete, result.endTime
stopTest(active, pending, result) ==
  IF active
    THEN [activeTests |-> FALSE, hardStop |-> FALSE,
          testResults |-> IF result # NoResult
                            THEN [result EXCEPT !.ended = TRUE] ELSE result]
    ELSE [activeTests |-> active, hardStop |-> pending, testResults |-> result]

\* verifyRecovery: what one poll accepts as recovered
recoveredNow ==
  /\ agentConfigs
  /\ health.status = AgentStatus_READY
  /\ health.isHealthy

TesterLast(op, wasActive) == [op |-> op, wasActive |-> wasActive]

TesterInit ==
  /\ activeTests = FALSE
  /\ hardStop = FALSE
  /\ testResults = NoResult
  /\ routine = NoRoutine
  /\ testerLast = TesterLast("new", FALSE)

\* runTest(options): the result is stored, executeTest runs until it first
\* awaits, then the hard stop is scheduled and the test is put in activeTests
RunTest(options) ==
  /\ testResults = NoResult
  /\ routine = NoRoutine
  /\ LET crashes == IF options.failureType = AGENT_CRASH
                      THEN crashesInjected(activeTests, options) ELSE 0
         stopped == IF crashes > 0 THEN stopAgent(mgrState) ELSE mgrState
         created == newTestResult(options)
     IN  /\ Becomes(stopped)
         /\ testResults' =
              IF options.failureType = NETWORK_PARTITION
                THEN [created EXCEPT !.failureCount = 1]
                ELSE [created EXCEPT !.failureCount = crashes]
         /\ routine' =
              [pc |-> IF options.failureType = NETWORK_PARTITION THEN "partition"
                      ELSE IF crashes > 0 THEN "crashWait" ELSE "verify",
               initialAttempts |-> health.restartAttempts,
               failureCount |-> IF options.failureType = AGENT_CRASH
                                  THEN options.failureCount ELSE 0]
  /\ activeTests' = TRUE
  /\ hardStop' = TRUE
  /\ testerLast' = TesterLast("runTest", FALSE)
  /\ UNCHANGED <<agentConfigs, checks, initFailures, healthRestarts, mgrLast>>

\* stopTest(testId) called by a user of the harness
StopTest ==
  /\ LET s == stopTest(activeTests, hardStop, testResults)
     IN  /\ activeTests' = s.activeTests
         /\ hardStop' = s.hardStop
         /\ testResults' = s.testResults
  /\ testerLast' = TesterLast("stopTest", activeTests)
  /\ UNCHANGED <<routine, mgrVars>>

\* the hard stop scheduled by runTest fires and calls stopTest
HardStop ==
  /\ hardStop
  /\ routine.pc # "partition"
  /\ LET s == stopTest(activeTests, FALSE, testResults)
     IN  /\ activeTests' = s.activeTests
         /\ hardStop' = FALSE
         /\ testResults' = s.testResults
  /\ testerLast' = TesterLast("hardStop", activeTests)
  /\ UNCHANGED <<routine, mgrVars>>

\* runNetworkPartitionTest: the partition duration is over
PartitionEnds ==
  /\ routine.pc = "partition"
  /\ testResults' = IF activeTests
                      THEN [testResults EXCEPT !.successCount = @ + 1]
                      ELSE testResults
  /\ routine' = [routine EXCEPT !.pc = "verify"]
  /\ testerLast' = TesterLast("partitionEnds", activeTests)
  /\ UNCHANGED <<activeTests, hardStop, mgrVars>>

\* verifyRecovery: a poll finds the agent READY and healthy
VerifyRecovered ==
  /\ routine.pc = "verify"
  /\ recoveredNow
  /\ testResults' = [testResults EXCEPT
                       !.recovered = TRUE,
                       !.agentRestarted = (health.restartAttempts > routine.initialAttempts),
                       !.ended = TRUE]
  /\ routine' = [routine EXCEPT !.pc = "done"]
  /\ testerLast' = TesterLast("verifyRecovery", activeTests)
  /\ UNCHANGED <<activeTests, hardStop, mgrVars>>

\* verifyRecovery: maxCheckTime has passed without a poll that found the
\* agent recovered
VerifyGivesUp ==
  /\ routine.pc = "verify"
  /\ ~recoveredNow
  /\ testResults' = [testResults EXCEPT !.ended = TRUE]
  /\ routine' = [routine EXCEPT !.pc = "done"]
  /\ testerLast' = TesterLast("verifyRecovery", activeTests)
  /\ UNCHANGED <<activeTests, hardStop, mgrVars>>

TesterNext ==
  \/ \E options \in TestOptions : RunTest(options)
  \/ StopTest
  \/ HardStop
  \/ PartitionEnds
  \/ VerifyRecovered
  \/ VerifyGivesUp

\* the harness together with the manager it tests
ManagedAgentNext ==
  \/ RegisterAgent
  \/ StartAgent(TRUE)
  \/ RestartAgent(TRUE)
  \/ StopAgent
  \/ InstanceFails
  \/ InstanceRecovers

HarnessNext ==
  \/ TesterNext
  \/ /\ ManagedAgentNext
     /\ testerLast' = TesterLast("manager", activeTests)
     /\ UNCHANGED <<activeTests, hardStop, testResults, routine>>

\* the submitTask calls of the runs that look at the order of the queue:
\* two priorities, and targets that are registered and that are not
QueueInputs ==
  {params \in SubmitInputs :
     /\ params.priority \in {"high", "medium"}
     /\ params.source = None \/ params.destinationAgent # None}

(***************************************************************************)
(* The processTaskQueue loop of the orchestrator with its setImmediate     *)
(* callbacks counted, and MasterControlProgram.shutdown                    *)
(***************************************************************************)
VARIABLES
  armed,      \* setImmediate callbacks of processTaskQueue that are pending
  loopLast    \* history: the last step of the loop and whether it threw

loopVars == <<armed, loopLast>>

LoopLast(op, threw) == [op |-> op, threw |-> threw]

LoopInit ==
  /\ armed = 0
  /\ loopLast = LoopLast("new", FALSE)

\* a processTaskQueue that arms its callback whether or not the MCP runs
processTaskQueueAlways(isRunning, pending) == pending + 1

\* processTaskQueue(): returns when the MCP is not running, otherwise arms
\* one callback with setImmediate
processTaskQueue(isRunning, pending) ==
  IF ~isRunning THEN pending ELSE pending + 1

\* initialize() ends with processTaskQueue()
LoopInitialize ==
  /\ armed < MaxArmed
  /\ Initialize
  /\ armed' = processTaskQueue(running', armed)
  /\ loopLast' = LoopLast("initialize", FALSE)

\* MasterControlProgram.shutdown: the registered agents are shut down, the
\* maps and the queue are cleared, then BaseAgent.shutdown of the MCP
Shutdown ==
  /\ running
  /\ running' = FALSE
  /\ agentRunning' = [a \in ManagedAgents |-> IF a \in agents THEN FALSE ELSE agentRunning[a]]
  /\ subscribers' = subscribers \ (agents \cup {MCP})
  /\ agentTasks' = [id \in TaskIds |->
                      IF agentTasks[id].agent \in agents
                        THEN shutdownTask(agentTasks[id]) ELSE agentTasks[id]]
  /\ agents' = {}
  /\ taskQueue' = <<>>
  /\ taskRegistry' = [id \in TaskIds |-> NoTask]
  /\ agentStatus' = [a \in AllAgentTypes |-> None]
  /\ published' = <<>>
  /\ last' = Last("mcpShutdown", 0, TRUE)
  /\ UNCHANGED <<taskCount, now>>

LoopShutdown ==
  /\ Shutdown
  /\ loopLast' = LoopLast("shutdown", FALSE)
  /\ UNCHANGED armed

\* an iteration whose assignTaskToAgent raises before it publishes: the head
\* is already dequeued and marked assigned, the catch of the callback logs
ProcessQueueThrows ==
  /\ ~isEmpty(taskQueue)
  /\ canAssign(peek(taskQueue))
  /\ taskQueue' = dequeue(taskQueue)
  /\ taskRegistry' = [taskRegistry EXCEPT ![peek(taskQueue)].status = "assigned"]
  /\ published' = <<>>
  /\ last' = Last("dispatchThrew", peek(taskQueue), FALSE)
  /\ UNCHANGED <<running, agents, agentStatus, taskCount, now, subscribers,
                 agentRunning, agentTasks>>

\* a pending callback fires: the iteration, then processTaskQueue()
LoopIteration(threw) ==
  /\ armed > 0
  /\ IF threw THEN ProcessQueueThrows ELSE ProcessQueue
  /\ armed' = processTaskQueue(running, armed - 1)
  /\ loopLast' = LoopLast("iteration", threw)

\* what runs between the iterations: submitTask calls
LoopSubmit(params) ==
  /\ SubmitUpTo(params, MaxQueued)
  /\ loopLast' = LoopLast("submitTask", FALSE)
  /\ UNCHANGED armed

LoopNext ==
  \/ LoopInitialize
  \/ LoopShutdown
  \/ \E threw \in BOOLEAN : LoopIteration(threw)
  \/ \E params \in QueueInputs : LoopSubmit(params)

\* an agent with the tasks it was given, and TASK_CANCEL messages from the
\* orchestrator and from other agents
CancelNext ==
  \/ Initialize
  \/ \E params \in SubmitInputs : SubmitTask(params)
  \/ Dispatch
  \/ \E id \in TaskIds : SettleTask(id)
  \/ \E id \in TaskIds : CancelTask(id)
  \/ \E id \in TaskIds : TaskCancelMessage(id)
  \/ \E a \in ShutdownInputs : AgentShutdown(a)

\* the orchestrator with several tasks waiting in its queue
QueueNext ==
  \/ Initialize
  \/ \E params \in QueueInputs : SubmitUpTo(params, MaxQueued)
  \/ Dispatch
  \/ \E a \in UnregisterInputs : UnregisterAgent(a)
  \/ \E a \in ShutdownInputs : AgentShutdown(a)
  \/ Tick

(***************************************************************************)
(* The Promise.race of CircuitBreaker.execute: what loses the race is      *)
(* still pending and settles later                                         *)
(***************************************************************************)

\* operations that were given up after the timeout and have not settled yet
MaxAbandoned == 2

VARIABLES
  abandoned    \* wrapped operations whose call timed out and that are still running

raceVars == <<abandoned>>

RaceInit == abandoned = 0

\* a settlement of the wrapped operation that is counted although the call
\* has already timed out
raceLoserCounts(b, resolved, t) ==
  IF resolved THEN onSuccess(b, t) ELSE onFailure(b, t)

\* Promise.race has already settled with the timeout: the later settlement
\* of fn() reaches no continuation of execute
raceLoser(b, resolved, t) == b

\* the timeout timer wins the race: execute rejects, fn() keeps running
TimeoutAbandons(i) ==
  /\ abandoned < MaxAbandoned
  /\ SettleTimeout(i)
  /\ abandoned' = abandoned + 1

\* the operation of a call that timed out settles at last
LateSettle(resolved) ==
  /\ abandoned > 0
  /\ abandoned' = abandoned - 1
  /\ breaker' = raceLoser(breaker, resolved, cbNow)
  /\ CBHistory("lateSettle", breaker')
  /\ UNCHANGED <<cbNow, inflight, calls, nextMonitor>>

RaceNext ==
  \/ ExecuteReject /\ UNCHANGED raceVars
  \/ ExecuteInvoke /\ UNCHANGED raceVars
  \/ \E i \in 1..Len(inflight) : SettleSuccess(i) /\ UNCHANGED raceVars
  \/ \E i \in 1..Len(inflight) : SettleFailure(i) /\ UNCHANGED raceVars
  \/ \E i \in 1..Len(inflight) : TimeoutAbandons(i)
  \/ \E resolved \in BOOLEAN : LateSettle(resolved)
  \/ CBTick /\ UNCHANGED raceVars

(***************************************************************************)
(* CircuitBreakerRegistry, with CircuitBreaker's constructor, reset and    *)
(* dispose                                                                 *)
(***************************************************************************)

RegKeys == {"k1", "k2"}

\* breaker instances ever constructed by the registry
MaxBreakers == 3

NoBreaker == [id |-> 0]

\* customOptions of getBreaker: nothing, or a monitorInterval override
NoOption == 0 - 1

CustomIntervals == {NoOption, 0, monitorInterval + 1}

VARIABLES
  breakers,        \* CircuitBreakerRegistry.breakers: key -> instance or NoBreaker
  monitorTimers,   \* ids of the instances whose setInterval(monitor) is active
  nextBreakerId,   \* identity of the next instance constructed
  regLast          \* history: the last registry call, what it returned, the map before

regVars == <<breakers, monitorTimers, nextBreakerId, regLast>>

regState == [breakers |-> breakers, monitorTimers |-> monitorTimers,
             nextBreakerId |-> nextBreakerId]

\* new CircuitBreaker(options): the fields after construction
newCircuitBreaker(t) ==
  [state |-> "CLOSED", failures |-> 0, successes |-> 0, rejected |-> 0,
   lastFailureTime |-> 0, lastSuccessTime |-> 0, lastStateChange |-> t]

\* CircuitBreaker.reset()
reset(b, t) ==
  [setState(b, "CLOSED", t) EXCEPT !.failures = 0, !.successes = 0, !.rejected = 0]

\* {...defaultOptions, ...customOptions}.monitorInterval
mergedInterval(custom) == IF custom = NoOption THEN monitorInterval ELSE custom

\* the constructor with the merged options; the timer is made when
\* monitorInterval is truthy
construct(r, serviceKey, custom, t) ==
  LET id == r.nextBreakerId
  IN  [breakers |-> [r.breakers EXCEPT ![serviceKey] =
                       [id |-> id, monitorInterval |-> mergedInterval(custom),
                        b |-> newCircuitBreaker(t)]],
       monitorTimers |-> IF mergedInterval(custom) # 0
                           THEN r.monitorTimers \cup {id} ELSE r.monitorTimers,
       nextBreakerId |-> id + 1]

\* a getBreaker that constructs a breaker on every call
getBreakerAlwaysNew(r, serviceKey, custom, t) == construct(r, serviceKey, custom, t)

getBreaker(r, serviceKey, custom, t) ==
  IF r.breakers[serviceKey] = NoBreaker
    THEN construct(r, serviceKey, custom, t)
    ELSE r

\* CircuitBreaker.dispose() of the instance stored under the key
dispose(r, serviceKey) ==
  [r EXCEPT !.monitorTimers = @ \ {r.breakers[serviceKey].id}]

resetBreaker(r, serviceKey, t) ==
  IF r.breakers[serviceKey] # NoBreaker
    THEN [r EXCEPT !.breakers[serviceKey].b = reset(@, t)]
    ELSE r

removeBreaker(r, serviceKey) ==
  IF r.breakers[serviceKey] # NoBreaker
    THEN [dispose(r, serviceKey) EXCEPT !.breakers[serviceKey] = NoBreaker]
    ELSE r

\* CircuitBreakerRegistry.dispose()
disposeAll(r) ==
  [r EXCEPT !.breakers = [k \in RegKeys |-> NoBreaker],
            !.monitorTimers = @ \ {r.breakers[k].id : k \in RegKeys}]

RegLast(op, key, returned) ==
  [op |-> op, key |-> key, returned |-> returned, before |-> breakers,
   timersBefore |-> monitorTimers]

RegBecomes(r) ==
  /\ breakers' = r.breakers
  /\ monitorTimers' = r.monitorTimers
  /\ nextBreakerId' = r.nextBreakerId

RegInit ==
  /\ breakers = [k \in RegKeys |-> NoBreaker]
  /\ monitorTimers = {}
  /\ nextBreakerId = 1
  /\ regLast = [op |-> "new", key |-> None, returned |-> 0,
                before |-> [k \in RegKeys |-> NoBreaker], timersBefore |-> {}]

GetBreaker(serviceKey, custom) ==
  LET r == getBreaker(regState, serviceKey, custom, cbNow)
  IN  /\ r.nextBreakerId <= MaxBreakers + 1
      /\ RegBecomes(r)
      /\ regLast' = RegLast("getBreaker", serviceKey, r.breakers[serviceKey].id)

ResetBreaker(serviceKey) ==
  /\ RegBecomes(resetBreaker(regState, serviceKey, cbNow))
  /\ regLast' = RegLast("resetBreaker", serviceKey,
                        IF breakers[serviceKey] # NoBreaker THEN 1 ELSE 0)

RemoveBreaker(serviceKey) ==
  /\ RegBecomes(removeBreaker(regState, serviceKey))
  /\ regLast' = RegLast("removeBreaker", serviceKey,
                        IF breakers[serviceKey] # NoBreaker THEN 1 ELSE 0)

Dispose ==
  /\ RegBecomes(disposeAll(regState))
  /\ regLast' = RegLast("dispose", None, 0)

\* a call through the instance held under the key fails
BreakerFailure(serviceKey) ==
  /\ breakers[serviceKey] # NoBreaker
  /\ breakers[serviceKey].b.failures < failureThreshold
  /\ RegBecomes([regState EXCEPT !.breakers[serviceKey].b = onFailure(@, cbNow)])
  /\ regLast' = RegLast("failure", serviceKey, 0)

RegNext ==
  \/ \E k \in RegKeys, custom \in CustomIntervals : GetBreaker(k, custom)
  \/ \E k \in RegKeys : ResetBreaker(k)
  \/ \E k \in RegKeys : RemoveBreaker(k)
  \/ Dispose
  \/ \E k \in RegKeys : BreakerFailure(k)

(***************************************************************************)
(* EnhancedAgentManager.initialize / shutdown and the process-level        *)
(* handlers                                                                *)
(***************************************************************************)

\* listeners a process may carry per event (calls of initialize that attach)
MaxListeners == 3

VARIABLES
  isInitialized,        \* EnhancedAgentManager.isInitialized
  uncaughtListeners,    \* listeners of 'uncaughtException' attached by the manager
  rejectionListeners,   \* listeners of 'unhandledRejection' attached by the manager
  exited,               \* the process has been terminated by a handler
  procLast              \* history: the last call

procVars == <<isInitialized, uncaughtListeners, rejectionListeners, exited, procLast>>

ProcInit ==
  /\ isInitialized = FALSE
  /\ uncaughtListeners = 0
  /\ rejectionListeners = 0
  /\ exited = FALSE
  /\ procLast = "new"

\* handleUncaughtException / handleUnhandledRejection: console.error only
handleUncaughtException(terminated) == terminated

handleUnhandledRejection(terminated) == terminated

\* initialize(): returns at once when already initialized, otherwise
\* process.on(...) twice
ManagerInitialize ==
  /\ IF isInitialized
       THEN UNCHANGED <<isInitialized, uncaughtListeners, rejectionListeners>>
       ELSE /\ uncaughtListeners < MaxListeners
            /\ uncaughtListeners' = uncaughtListeners + 1
            /\ rejectionListeners' = rejectionListeners + 1
            /\ isInitialized' = TRUE
  /\ procLast' = "initialize"
  /\ UNCHANGED <<exited, mgrVars, regVars>>

\* shutdown(): stopAllAgents, circuitBreakerRegistry.dispose(),
\* isInitialized = false; no listener is removed
ManagerShutdown ==
  /\ IF isInitialized
       THEN /\ Becomes(stopAgent(mgrState))
            /\ mgrLast' = MgrLast("shutdown", FALSE, FALSE)
            /\ healthRestarts' = IF mgrAgents THEN 0 ELSE healthRestarts
            /\ RegBecomes(disposeAll(regState))
            /\ regLast' = RegLast("dispose", None, 0)
            /\ isInitialized' = FALSE
            /\ UNCHANGED <<agentConfigs, checks, initFailures>>
       ELSE UNCHANGED <<isInitialized, mgrVars, regVars>>
  /\ procLast' = "shutdown"
  /\ UNCHANGED <<uncaughtListeners, rejectionListeners, exited>>

\* an exception nobody caught reaches the listeners of the process
UncaughtException ==
  /\ uncaughtListeners > 0
  /\ exited' = handleUncaughtException(exited)
  /\ procLast' = "uncaughtException"
  /\ UNCHANGED <<isInitialized, uncaughtListeners, rejectionListeners, mgrVars, regVars>>

UnhandledRejection ==
  /\ rejectionListeners > 0
  /\ exited' = handleUnhandledRejection(exited)
  /\ procLast' = "unhandledRejection"
  /\ UNCHANGED <<isInitialized, uncaughtListeners, rejectionListeners, mgrVars, regVars>>

\* the manager at work between initialize and shutdown
ProcNext ==
  \/ ManagerInitialize
  \/ ManagerShutdown
  \/ UncaughtException
  \/ UnhandledRejection
  \/ /\ RegisterAgent \/ StartAgent(TRUE) \/ StopAgent
     /\ procLast' = "manager"
     /\ UNCHANGED <<isInitialized, uncaughtListeners, rejectionListeners, exited, regVars>>
  \/ /\ \E k \in RegKeys : GetBreaker(k, NoOption)
     /\ procLast' = "registry"
     /\ UNCHANGED <<isInitialized, uncaughtListeners, rejectionListeners, exited, mgrVars>>

(***************************************************************************)
(* BaseAgent.initialize / shutdown and the periodic status updates         *)
(***************************************************************************)

\* intervals an agent may have made (calls of initialize that start one)
MaxStatusTimers == 3

VARIABLES
  agentIsRunning,      \* BaseAgent.running, per agent
  agentSubscriptions,  \* handlers of the agent subscribed on the bus
  statusTimers,        \* active setInterval timers made by startStatusUpdates
  statusUpdates,       \* STATUS_UPDATE messages the agent sent in the last step
  agentLast            \* history: the last call and the state it found

agentVars == <<agentIsRunning, agentSubscriptions, statusTimers, statusUpdates, agentLast>>

AgentLast(op, a) ==
  [op |-> op, agent |-> a, wasRunning |-> agentIsRunning[a],
   subscriptionsBefore |-> agentSubscriptions[a], timersBefore |-> statusTimers[a]]

AgentInit ==
  /\ agentIsRunning = [a \in ManagedAgents |-> FALSE]
  /\ agentSubscriptions = [a \in ManagedAgents |-> 0]
  /\ statusTimers = [a \in ManagedAgents |-> 0]
  /\ statusUpdates = [a \in ManagedAgents |-> 0]
  /\ agentLast = [op |-> "new", agent |-> None, wasRunning |-> FALSE,
                  subscriptionsBefore |-> 0, timersBefore |-> 0]

\* startStatusUpdates(): one update now, and a new interval; the handle
\* returned by setInterval is not kept
startStatusUpdates(timers) == timers + 1

\* the callback of one interval: if (this.running) sendStatusUpdate()
statusUpdateTick(isRunning) == IF isRunning THEN 1 ELSE 0

\* initialize(): nothing when already running; else subscribe, register,
\* startStatusUpdates
AgentInitialize(a) ==
  /\ IF agentIsRunning[a]
       THEN /\ statusUpdates' = [b \in ManagedAgents |-> 0]
            /\ UNCHANGED <<agentIsRunning, agentSubscriptions, statusTimers>>
       ELSE /\ statusTimers[a] < MaxStatusTimers
            /\ agentIsRunning' = [agentIsRunning EXCEPT ![a] = TRUE]
            /\ agentSubscriptions' = [agentSubscriptions EXCEPT ![a] = @ + 1]
            /\ statusTimers' = [statusTimers EXCEPT ![a] = startStatusUpdates(@)]
            /\ statusUpdates' = [b \in ManagedAgents |-> IF b = a THEN 1 ELSE 0]
  /\ agentLast' = AgentLast("initialize", a)

\* shutdown(): nothing when not running; else running = false and the
\* unsubscribe function is called; no timer is cleared
AgentShutdownCall(a) ==
  /\ IF agentIsRunning[a]
       THEN /\ agentIsRunning' = [agentIsRunning EXCEPT ![a] = FALSE]
            /\ agentSubscriptions' = [agentSubscriptions EXCEPT ![a] = @ - 1]
       ELSE UNCHANGED <<agentIsRunning, agentSubscriptions>>
  /\ statusUpdates' = [b \in ManagedAgents |-> 0]
  /\ agentLast' = AgentLast("shutdown", a)
  /\ UNCHANGED statusTimers

\* 30 seconds pass: every interval of the agent fires once
StatusInterval(a) ==
  /\ statusTimers[a] > 0
  /\ statusUpdates' = [b \in ManagedAgents |->
                         IF b = a THEN statusTimers[a] * statusUpdateTick(agentIsRunning[a])
                         ELSE 0]
  /\ agentLast' = AgentLast("interval", a)
  /\ UNCHANGED <<agentIsRunning, agentSubscriptions, statusTimers>>

AgentTimersNext ==
  \E a \in ManagedAgents :
    \/ AgentInitialize(a)
    \/ AgentShutdownCall(a)
    \/ StatusInterval(a)

(***************************************************************************)
(* EnhancedCommunicationBus: sendMessage through the registry's breakers,  *)
(* sendMessageWithResponse and its pending responses                       *)
(***************************************************************************)

\* calls of sendMessage and sendMessageWithResponse
MaxEbCalls == 3

\* calls of sendMessageWithResponse; the id of a request is its number
MaxRequests == 2

MaxEbTime == 2

\* handlers registered for the event type of the incoming messages
MaxHandlers == 1

\* options.retries
MaxSendRetries == 1

RequestIds == 1..MaxRequests

\* the outcomes of the attempts of one sendMessage: does baseBus.sendMessage
\* resolve
SendOutcomes ==
  UNION {[1..n -> BOOLEAN] : n \in 1..(MaxSendRetries + 1)}

NoRequest == [status |-> "none", resolverCalls |-> 0, timer |-> FALSE]

VARIABLES
  ebNow,             \* Date.now()
  ebCalls,           \* calls made so far
  requests,          \* per request: state of its response promise and of its timer
  pendingResponses,  \* keys of EnhancedCommunicationBus.pendingResponses
  messageHandlers,   \* handlers registered for the event type
  ebLast             \* history: the last call and what it did

ebVars == <<ebNow, ebCalls, requests, pendingResponses, messageHandlers, ebLast>>

EbInit ==
  /\ ebNow = 0
  /\ ebCalls = 0
  /\ requests = [id \in RequestIds |-> NoRequest]
  /\ pendingResponses = {}
  /\ messageHandlers = 0
  /\ ebLast = [op |-> "new", key |-> None, id |-> 0, success |-> FALSE,
               baseInvoked |-> 0, delivered |-> 0,
               before |-> [k \in RegKeys |-> NoBreaker],
               requestsBefore |-> [id \in RequestIds |-> NoRequest],
               pendingBefore |-> {}]

EbLast(op, key, id, success, baseInvoked, delivered) ==
  [op |-> op, key |-> key, id |-> id, success |-> success,
   baseInvoked |-> baseInvoked, delivered |-> delivered, before |-> breakers,
   requestsBefore |-> requests, pendingBefore |-> pendingResponses]

\* breaker.execute(fn) where fn is one baseBus.sendMessage that resolves (ok)
\* or rejects
execute(b, ok, t) ==
  IF b.state = "OPEN" /\ ~resetElapsed(b, t)
    THEN [b |-> [b EXCEPT !.rejected = @ + 1], invoked |-> 0, threw |-> TRUE]
    ELSE LET b1 == IF b.state = "OPEN" THEN setState(b, "HALF_OPEN", t) ELSE b
         IN  IF ok THEN [b |-> onSuccess(b1, t), invoked |-> 1, threw |-> FALSE]
                   ELSE [b |-> onFailure(b1, t), invoked |-> 1, threw |-> TRUE]

\* sendMessage(message, options): the breaker of the destination is used
\* when the registry has one, else the message is sent directly; a failed
\* attempt is repeated while options.retries allows
RECURSIVE sendMessage(_, _, _, _, _)
sendMessage(brs, destination, oks, t, invokedSoFar) ==
  LET viaBreaker == brs[destination] # NoBreaker
      x == IF viaBreaker
             THEN execute(brs[destination].b, oks[1], t)
             ELSE [b |-> NoBreaker, invoked |-> 1, threw |-> ~oks[1]]
      brs1 == IF viaBreaker THEN [brs EXCEPT ![destination].b = x.b] ELSE brs
      invoked == invokedSoFar + x.invoked
  IN  IF x.threw /\ Len(oks) > 1
        THEN sendMessage(brs1, destination, Tail(oks), t, invoked)
        ELSE [breakers |-> brs1, success |-> ~x.threw, baseInvoked |-> invoked]

\* resolve(...) or reject(...) of a response promise: only the first call
\* settles it
settle(request, how) ==
  [request EXCEPT !.status = IF @ = "pending" THEN how ELSE @,
                  !.resolverCalls = @ + 1]

\* a handleMessage that leaves the entry of an answered request in place
handleMessageKeepsEntry(reqs, pending, handlers, correlationId) ==
  IF correlationId # 0 /\ correlationId \in pending
    THEN [requests |-> [reqs EXCEPT ![correlationId] =
                          [settle(@, "resolved") EXCEPT !.timer = FALSE]],
          pendingResponses |-> pending, delivered |-> 0]
    ELSE [requests |-> reqs, pendingResponses |-> pending, delivered |-> handlers]

\* handleMessage(message): a message correlated with a pending request
\* resolves it; any other message goes to the handlers of its event type
handleMessage(reqs, pending, handlers, correlationId) ==
  IF correlationId # 0 /\ correlationId \in pending
    THEN [requests |-> [reqs EXCEPT ![correlationId] =
                          [settle(@, "resolved") EXCEPT !.timer = FALSE]],
          pendingResponses |-> pending \ {correlationId}, delivered |-> 0]
    ELSE [requests |-> reqs, pendingResponses |-> pending, delivered |-> handlers]

\* the callback of the timer made by sendMessageWithResponse
responseTimeout(reqs, pending, id) ==
  IF id \in pending
    THEN [requests |-> [reqs EXCEPT ![id] = [settle(@, "rejected") EXCEPT !.timer = FALSE]],
          pendingResponses |-> pending \ {id}]
    ELSE [requests |-> [reqs EXCEPT ![id].timer = FALSE], pendingResponses |-> pending]

\* disconnect(): every pending request is rejected and its timer cleared
disconnect(reqs, pending) ==
  [requests |-> [id \in RequestIds |->
                   IF id \in pending
                     THEN [settle(reqs[id], "rejected") EXCEPT !.timer = FALSE]
                     ELSE reqs[id]],
   pendingResponses |-> {}]

SendMessage(destination, oks) ==
  LET r == sendMessage(breakers, destination, oks, ebNow, 0)
  IN  /\ ebCalls < MaxEbCalls
      /\ ebCalls' = ebCalls + 1
      /\ breakers' = r.breakers
      /\ regLast' = RegLast("execute", destination, 0)
      /\ ebLast' = EbLast("sendMessage", destination, 0, r.success, r.baseInvoked, 0)
      /\ UNCHANGED <<ebNow, requests, pendingResponses, messageHandlers,
                     monitorTimers, nextBreakerId>>

\* sendMessageWithResponse(message, options): the timer and the pending
\* entry are made, then the message is sent
SendMessageWithResponse(id, destination, oks) ==
  LET r == sendMessage(breakers, destination, oks, ebNow, 0)
  IN  /\ ebCalls < MaxEbCalls
      /\ requests[id].status = "none"
      /\ \A j \in RequestIds : j < id => requests[j].status # "none"
      /\ ebCalls' = ebCalls + 1
      /\ requests' = [requests EXCEPT ![id] =
                        [status |-> "pending", resolverCalls |-> 0, timer |-> TRUE]]
      /\ pendingResponses' = pendingResponses \cup {id}
      /\ breakers' = r.breakers
      /\ regLast' = RegLast("execute", destination, 0)
      /\ ebLast' = EbLast("sendMessageWithResponse", destination, id, r.success,
                          r.baseInvoked, 0)
      /\ UNCHANGED <<ebNow, messageHandlers, monitorTimers, nextBreakerId>>

\* the base bus emits 'message'; correlationId 0 stands for none
HandleMessage(correlationId) ==
  LET r == handleMessage(requests, pendingResponses, messageHandlers, correlationId)
  IN  /\ requests' = r.requests
      /\ pendingResponses' = r.pendingResponses
      /\ ebLast' = EbLast("handleMessage", None, correlationId, FALSE, 0, r.delivered)
      /\ UNCHANGED <<ebNow, ebCalls, messageHandlers, regVars>>

ResponseTimeout(id) ==
  LET r == responseTimeout(requests, pendingResponses, id)
  IN  /\ requests[id].timer
      /\ requests' = r.requests
      /\ pendingResponses' = r.pendingResponses
      /\ ebLast' = EbLast("timeout", None, id, FALSE, 0, 0)
      /\ UNCHANGED <<ebNow, ebCalls, messageHandlers, regVars>>

Disconnect ==
  LET r == disconnect(requests, pendingResponses)
  IN  /\ requests' = r.requests
      /\ pendingResponses' = r.pendingResponses
      /\ ebLast' = EbLast("disconnect", None, 0, FALSE, 0, 0)
      /\ UNCHANGED <<ebNow, ebCalls, messageHandlers, regVars>>

RegisterHandler ==
  /\ messageHandlers < MaxHandlers
  /\ messageHandlers' = messageHandlers + 1
  /\ ebLast' = EbLast("registerHandler", None, 0, FALSE, 0, 0)
  /\ UNCHANGED <<ebNow, ebCalls, requests, pendingResponses, regVars>>

EbTick ==
  /\ ebNow < MaxEbTime
  /\ ebNow' = ebNow + 1
  /\ ebLast' = EbLast("tick", None, 0, FALSE, 0, 0)
  /\ UNCHANGED <<ebCalls, requests, pendingResponses, messageHandlers, regVars>>

\* somebody else (the manager, the harness) asks the registry for a breaker
EbGetBreaker(key) ==
  /\ GetBreaker(key, NoOption)
  /\ ebLast' = EbLast("getBreaker", key, 0, FALSE, 0, 0)
  /\ UNCHANGED <<ebNow, ebCalls, requests, pendingResponses, messageHandlers>>

\* the sends of the bus, with the registry
SendNext ==
  \/ \E k \in RegKeys, oks \in SendOutcomes : SendMessage(k, oks)
  \/ \E k \in RegKeys : EbGetBreaker(k)
  \/ EbTick

\* the requests of the bus and the messages coming in
ResponseNext ==
  \/ \E id \in RequestIds, k \in RegKeys, oks \in SendOutcomes :
       SendMessageWithResponse(id, k, oks)
  \/ \E c \in 0..MaxRequests : HandleMessage(c)
  \/ \E id \in RequestIds : ResponseTimeout(id)
  \/ Disconnect
  \/ RegisterHandler

vars == <<cbVars, pqVars, mcpVars, busVars, mgrVars, testerVars, loopVars, raceVars, regVars, procVars, agentVars, ebVars>>

Init == CBInit /\ PQInit /\ MInit /\ BusInit /\ MgrInit /\ TesterInit /\ LoopInit /\ RaceInit /\ RegInit /\ ProcInit /\ AgentInit /\ EbInit

CBStep == CBNext /\ UNCHANGED <<pqVars, mcpVars, busVars, mgrVars, testerVars, loopVars, raceVars, regVars, procVars, agentVars, ebVars>>

PQStep == PQNext /\ UNCHANGED <<cbVars, mcpVars, busVars, mgrVars, testerVars, loopVars, raceVars, regVars, procVars, agentVars, ebVars>>

Next == MNext /\ UNCHANGED <<cbVars, pqVars, busVars, mgrVars, testerVars, loopVars, raceVars, regVars, procVars, agentVars, ebVars>>

BusStep == BusNext /\ UNCHANGED <<cbVars, pqVars, mcpVars, mgrVars, testerVars, loopVars, raceVars, regVars, procVars, agentVars, ebVars>>

LogStep == LogNext /\ UNCHANGED <<cbVars, pqVars, mcpVars, mgrVars, testerVars, loopVars, raceVars, regVars, procVars, agentVars, ebVars>>

AgentsStep == AgentsNext /\ UNCHANGED <<cbVars, pqVars, busVars, mgrVars, testerVars, loopVars, raceVars, regVars, procVars, agentVars, ebVars>>

MgrStep == MgrNext /\ UNCHANGED <<cbVars, pqVars, mcpVars, busVars, testerVars, loopVars, raceVars, regVars, procVars, agentVars, ebVars>>

SpecCB == Init /\ [][CBStep]_vars

SpecPQ == Init /\ [][PQStep]_vars

Spec == Init /\ [][Next]_vars

SpecBus == Init /\ [][BusStep]_vars

SpecLog == Init /\ [][LogStep]_vars

SpecAgents == Init /\ [][AgentsStep]_vars

SpecMgr == Init /\ [][MgrStep]_vars

QueueStep == QueueNext /\ UNCHANGED <<cbVars, pqVars, busVars, mgrVars, testerVars, loopVars, raceVars, regVars, procVars, agentVars, ebVars>>

SpecQueue == Init /\ [][QueueStep]_vars

CancelStep == CancelNext /\ UNCHANGED <<cbVars, pqVars, busVars, mgrVars, testerVars, loopVars, raceVars, regVars, procVars, agentVars, ebVars>>

SpecCancel == Init /\ [][CancelStep]_vars

LoopStep == LoopNext /\ UNCHANGED <<cbVars, pqVars, busVars, mgrVars, testerVars, raceVars, regVars, procVars, agentVars, ebVars>>

SpecLoop == Init /\ [][LoopStep]_vars

SendStep == SendNext /\ UNCHANGED <<cbVars, pqVars, mcpVars, busVars, mgrVars, testerVars, loopVars, raceVars, procVars, agentVars>>

SpecSend == Init /\ [][SendStep]_vars

ResponseStep == ResponseNext /\ UNCHANGED <<cbVars, pqVars, mcpVars, busVars, mgrVars, testerVars, loopVars, raceVars, procVars, agentVars>>

SpecResponse == Init /\ [][ResponseStep]_vars

AgentTimersStep == AgentTimersNext /\ UNCHANGED <<cbVars, pqVars, mcpVars, busVars, mgrVars, testerVars, loopVars, raceVars, regVars, procVars, ebVars>>

SpecAgentTimers == Init /\ [][AgentTimersStep]_vars

ProcStep == ProcNext /\ UNCHANGED <<cbVars, pqVars, mcpVars, busVars, testerVars, loopVars, raceVars, agentVars, ebVars>>

SpecProc == Init /\ [][ProcStep]_vars

RegStep == RegNext /\ UNCHANGED <<cbVars, pqVars, mcpVars, busVars, mgrVars, testerVars, loopVars, raceVars, procVars, agentVars, ebVars>>

SpecReg == Init /\ [][RegStep]_vars

RaceStep == RaceNext /\ UNCHANGED <<pqVars, mcpVars, busVars, mgrVars, testerVars, loopVars, regVars, procVars, agentVars, ebVars>>

SpecRace == Init /\ [][RaceStep]_vars

\* the timers of the manager: the health-check interval of a started agent
\* and the retry timeouts of failed starts fire
HealthCheckStep ==
  /\ \E initOk \in InitOutcomes : CheckAgentHealth(initOk)
  /\ UNCHANGED <<cbVars, pqVars, mcpVars, busVars, testerVars, loopVars, raceVars, regVars, procVars, agentVars, ebVars>>

RetryStep ==
  /\ \E initOk \in InitOutcomes : RetryStart(initOk)
  /\ UNCHANGED <<cbVars, pqVars, mcpVars, busVars, testerVars, loopVars, raceVars, regVars, procVars, agentVars, ebVars>>

LiveMgr ==
  /\ SpecMgr
  /\ WF_vars(HealthCheckStep)
  /\ WF_vars(RetryStep)

TesterStep == HarnessNext /\ UNCHANGED <<cbVars, pqVars, mcpVars, busVars, loopVars, raceVars, regVars, procVars, agentVars, ebVars>>

SpecTester == Init /\ [][TesterStep]_vars

\* the dispatch loop re-arms itself with setImmediate after every iteration,
\* and an executeTask that was started settles
DispatchStep == Dispatch /\ UNCHANGED <<cbVars, pqVars, busVars, mgrVars, testerVars, loopVars, raceVars, regVars, procVars, agentVars, ebVars>>

SettleStep(id) == SettleTask(id) /\ UNCHANGED <<cbVars, pqVars, busVars, mgrVars, testerVars, loopVars, raceVars, regVars, procVars, agentVars, ebVars>>

LiveSpec ==
  /\ Spec
  /\ WF_vars(DispatchStep)
  /\ \A id \in CalledIds : WF_vars(SettleStep(id))

(***************************************************************************)
(* Properties of the circuit breaker (SpecCB)                              *)
(***************************************************************************)
CBTypeOK ==
  /\ breaker.state \in {"CLOSED", "OPEN", "HALF_OPEN"}
  /\ breaker.failures \in 0..MaxCalls
  /\ breaker.successes \in 0..MaxCalls
  /\ breaker.rejected \in 0..MaxCalls
  /\ Len(inflight) <= MaxInflight
  /\ cbNow \in 0..MaxTime

\* C2: starting from CLOSED, failureThreshold consecutive failures (no success
\* in between) leave the breaker OPEN; while CLOSED the failure count is the
\* number of consecutive failures, so a success resets it and non-consecutive
\* failures do not open the breaker; and a call made to the OPEN breaker before
\* resetTimeout has passed is rejected without invoking the wrapped operation.
C2_OpensAfterThreshold ==
  /\ breaker.state = "CLOSED" =>
        /\ breaker.failures = consecFail
        /\ consecFail < failureThreshold
  /\ (cbPre.state = "CLOSED" /\ cbOp \in {"failure", "timeout"}
         /\ consecFail >= failureThreshold) => breaker.state = "OPEN"
  /\ (cbPre.state = "CLOSED" /\ breaker.state = "OPEN") =>
        /\ cbOp \in {"failure", "timeout"}
        /\ consecFail = failureThreshold
  /\ (cbPre.state = "CLOSED" /\ cbOp = "success") => breaker.failures = 0
  /\ (cbPre.state = "OPEN" /\ cbOp \in {"invoke", "reject"}
         /\ cbNow - openSince <= resetTimeout) =>
        /\ cbOp = "reject"
        /\ breaker.state = "OPEN"
        /\ breaker.rejected = cbPre.rejected + 1

\* C2 witness: the breaker has just opened from CLOSED, and a call to the
\* freshly opened breaker has been rejected.
C2_Witness ==
  /\ cbOp = "reject"
  /\ cbPre.state = "OPEN"
  /\ cbNow = openSince
  /\ consecFail = failureThreshold

\* C3 (as claimed): whenever the breaker is OPEN and resetTimeout has elapsed
\* since lastStateChange, a call to execute is not rejected (it moves the
\* breaker to HALF_OPEN and invokes the operation).
C3_ElapsedSinceStateChangeAdmits ==
  (cbPre.state = "OPEN" /\ cbOp \in {"invoke", "reject"}
     /\ cbNow - cbPre.lastStateChange > resetTimeout) =>
    /\ cbOp = "invoke"
    /\ breaker.state = "HALF_OPEN"

\* C4: a HALF_OPEN breaker closes exactly when halfOpenSuccessThreshold
\* successes have been recorded since it entered HALF_OPEN, not before, and
\* on closing failures and successes are both 0.
C4_ClosesAtSuccessThreshold ==
  /\ breaker.state = "HALF_OPEN" => hoSucc < halfOpenSuccessThreshold
  /\ (cbPre.state = "HALF_OPEN" /\ cbOp = "success"
         /\ hoSucc >= halfOpenSuccessThreshold) => breaker.state = "CLOSED"
  /\ (cbPre.state = "HALF_OPEN" /\ breaker.state = "CLOSED") =>
        /\ cbOp = "success"
        /\ hoSucc = halfOpenSuccessThreshold
        /\ breaker.failures = 0
        /\ breaker.successes = 0

\* C4 witness: a success recorded in HALF_OPEN has just brought the count to
\* halfOpenSuccessThreshold and closed the breaker.
C4_Witness ==
  /\ cbPre.state = "HALF_OPEN"
  /\ cbOp = "success"
  /\ breaker.state = "CLOSED"
  /\ hoSucc = halfOpenSuccessThreshold

\* C5 (as claimed): a failed call while HALF_OPEN moves the breaker to OPEN,
\* resets failures and successes to 0 and updates lastFailureTime.
C5_HalfOpenFailureResets ==
  (cbPre.state = "HALF_OPEN" /\ cbOp \in {"failure", "timeout"}) =>
    /\ breaker.state = "OPEN"
    /\ breaker.lastFailureTime = cbNow
    /\ breaker.failures = 0
    /\ breaker.successes = 0

\* the part of C5 the code does implement (state and lastFailureTime)
C5_HalfOpenFailureReopens ==
  (cbPre.state = "HALF_OPEN" /\ cbOp \in {"failure", "timeout"}) =>
    /\ breaker.state = "OPEN"
    /\ breaker.lastFailureTime = cbNow
    /\ breaker.lastStateChange = cbNow

(***************************************************************************)
(* Properties of the priority queue (SpecPQ)                               *)
(***************************************************************************)
\* C6: peek and dequeue return a task whose priority rank is minimal among
\* the queued tasks, whatever the submission order.
C6_DequeueMinimalRank ==
  /\ ~isEmpty(pqItems) =>
        \A k \in 1..Len(pqItems) :
          priorityOrder(peek(pqItems).task.priority) <= priorityOrder(pqItems[k].task.priority)
  /\ (pqLast.op = "dequeue" /\ ~isEmpty(pqLast.before)) =>
        /\ \A k \in 1..Len(pqLast.before) :
             priorityOrder(pqLast.item.task.priority)
               <= priorityOrder(pqLast.before[k].task.priority)
        /\ \E k \in 1..Len(pqLast.before) : pqLast.before[k] = pqLast.item
        /\ Len(pqItems) = Len(pqLast.before) - 1

\* C6 witness: a high-priority task was dequeued while a low-priority task
\* submitted before it was still queued.
C6_Witness ==
  /\ pqLast.op = "dequeue"
  /\ pqLast.item.task.priority = "high"
  /\ \E k \in 1..Len(pqLast.before) :
       /\ pqLast.before[k].task.priority = "low"
       /\ pqLast.before[k].task.id < pqLast.item.task.id
       /\ pqLast.before[k].submittedAt < pqLast.item.submittedAt

\* C7: tasks of equal priority are queued, and so dequeued, in submission
\* order, also when they carry the same timestamp.
C7_FifoWithinPriority ==
  /\ \A i, j \in 1..Len(pqItems) :
       (i < j /\ pqItems[i].task.priority = pqItems[j].task.priority)
         => pqItems[i].task.id < pqItems[j].task.id
  /\ (pqLast.op = "dequeue" /\ ~isEmpty(pqLast.before)) =>
        \A k \in 1..Len(pqLast.before) :
          pqLast.before[k].task.priority = pqLast.item.task.priority
            => pqLast.item.task.id <= pqLast.before[k].task.id

\* C7 witness: a task was dequeued ahead of a later task of the same priority
\* and the same timestamp, after an earlier dequeue and a further enqueue.
C7_Witness ==
  /\ pqLast.op = "dequeue"
  /\ pqLast.item.task.id > 1
  /\ \E k \in 1..Len(pqLast.before) :
       /\ pqLast.before[k].task.priority = pqLast.item.task.priority
       /\ pqLast.before[k].submittedAt = pqLast.item.submittedAt
       /\ pqLast.before[k].task.id > pqLast.item.task.id

(***************************************************************************)
(* Properties of the orchestrator (Spec, LiveSpec)                         *)
(***************************************************************************)
MTypeOK ==
  /\ running \in BOOLEAN
  /\ agents \subseteq ManagedAgents
  /\ taskCount \in 0..MaxTasks
  /\ now \in 0..MaxClock
  /\ \A id \in TaskIds :
       taskRegistry[id].status \in
         {None, "pending", "assigned", "completed", "failed", "cancelled"}
  /\ \A k \in 1..Len(taskQueue) : taskQueue[k] \in 1..taskCount

\* the status changes the task life cycle allows
LegalStatusStep(s, t) ==
  \/ t = s
  \/ s = None /\ t = "pending"
  \/ s = "pending" /\ t \in {"assigned", "cancelled"}
  \/ s = "assigned" /\ t \in {"completed", "failed", "cancelled"}

\* C1 (as claimed): every task's status only moves pending -> assigned ->
\* completed|failed or pending/assigned -> cancelled; it never goes back and
\* never leaves completed, failed or cancelled.
C1_StatusMonotonic ==
  [][\A id \in TaskIds :
       LegalStatusStep(taskRegistry[id].status, taskRegistry'[id].status)]_vars

\* C8: a submitTask that resolves a destination adds exactly one registry
\* entry, with status pending, and one queue entry, publishes nothing and
\* returns {taskId, pending}; a task becomes assigned only in a dispatch-loop
\* iteration.
C8_SubmitAcknowledges ==
  [][/\ (last'.op = "submitTask" /\ last'.ok) =>
          /\ last'.id \in TaskIds
          /\ taskRegistry[last'.id].status = None
          /\ taskRegistry'[last'.id].status = "pending"
          /\ last'.returned = "pending"
          /\ \A id \in TaskIds \ {last'.id} : taskRegistry'[id] = taskRegistry[id]
          /\ Len(taskQueue') = Len(taskQueue) + 1
          /\ Cardinality({k \in 1..Len(taskQueue') : taskQueue'[k] = last'.id}) = 1
          /\ \A id \in TaskIds \ {last'.id} :
               Cardinality({k \in 1..Len(taskQueue') : taskQueue'[k] = id})
                 = Cardinality({k \in 1..Len(taskQueue) : taskQueue[k] = id})
          /\ published' = <<>>
          /\ agentTasks' = agentTasks
     /\ \A id \in TaskIds :
          (taskRegistry[id].status # "assigned" /\ taskRegistry'[id].status = "assigned")
            => last'.op = "dispatch"
    ]_vars

\* C8 witness: a task has just been submitted and acknowledged; it sits in
\* the queue with status pending and nothing has been published.
C8_Witness ==
  /\ last.op = "submitTask"
  /\ last.ok
  /\ last.returned = "pending"
  /\ taskRegistry[last.id].status = "pending"
  /\ \E k \in 1..Len(taskQueue) : taskQueue[k] = last.id
  /\ published = <<>>

\* a task just submitted to a registered, ready agent whose executeTask
\* returns its input
SubmittedToReadyAgent(id) ==
  /\ last.op = "submitTask"
  /\ last.id = id
  /\ taskRegistry[id].status = "pending"
  /\ taskRegistry[id].destinationAgent \in agents
  /\ agentStatus[taskRegistry[id].destinationAgent] = "running"
  /\ agentRunning[taskRegistry[id].destinationAgent]
  /\ ~executeTaskThrows(taskRegistry[id].task.parameters)

CompletedWithResult(id) ==
  /\ taskRegistry[id].status = "completed"
  /\ taskRegistry[id].result = taskRegistry[id].task.parameters

\* C9 (as claimed): a task submitted for a registered, ready agent whose
\* executeTask returns its input eventually is COMPLETED with that result.
C9_EventuallyCompleted ==
  \A id \in CalledIds : SubmittedToReadyAgent(id) ~> CompletedWithResult(id)

\* what keeps such a task from completing: it is cancelled, its agent is
\* unregistered or no longer ready, or the head of the queue it waits in
\* cannot be assigned
Hindered(id) ==
  \/ taskRegistry[id].status = "cancelled"
  \/ taskRegistry[id].destinationAgent \notin agents
  \/ agentStatus[taskRegistry[id].destinationAgent] # "running"
  \/ /\ \E k \in 1..Len(taskQueue) : taskQueue[k] = id
     /\ ~canAssign(peek(taskQueue))

\* C9 (amended): such a task eventually is COMPLETED with the value
\* executeTask returned, unless it is cancelled, its agent stops being
\* registered and ready, or a task ahead of it in the queue cannot be assigned.
C9_CompletedUnlessHindered ==
  \A id \in CalledIds :
    SubmittedToReadyAgent(id) ~> (CompletedWithResult(id) \/ Hindered(id))

\* C9 witness: the execution of a dispatched task has just settled, some time
\* after its submission, and the task is completed with the value its
\* executeTask returned.
C9_Witness ==
  /\ last.op = "settle"
  /\ CompletedWithResult(last.id)
  /\ taskRegistry[last.id].completedAt > taskRegistry[last.id].submittedAt
  /\ agentTasks[last.id].result = taskRegistry[last.id].task.parameters

\* C10 (as claimed): submitTask without an explicit destination fails, and
\* leaves the registry and the queue unchanged, when the task type has no
\* routing entry or its routed agent type is not registered.
C10_UnroutableSubmitFails ==
  [][(/\ last'.op = "submitTask"
      /\ last'.destinationAgent = None
      /\ \/ findAgentForTask(last'.taskType) = None
         \/ findAgentForTask(last'.taskType) \notin agents)
       => (/\ ~last'.ok
           /\ taskRegistry' = taskRegistry
           /\ taskQueue' = taskQueue)]_vars

\* the part of C10 the code implements: a task type without a routing
\* entry is refused and nothing is created
C10_NoRouteFails ==
  [][(/\ last'.op = "submitTask"
      /\ last'.destinationAgent = None
      /\ findAgentForTask(last'.taskType) = None)
       => (/\ ~last'.ok
           /\ taskRegistry' = taskRegistry
           /\ taskQueue' = taskQueue)]_vars

\* C11 (as claimed): cancelTask on a task that is completed, failed or
\* cancelled, or on an unknown id, fails, leaves the task's status,
\* completedAt, result and error as they were, and publishes no TASK_CANCEL.
C11_CancelOnlyPendingOrAssigned ==
  [][\A id \in TaskIds :
       (/\ last'.op = "cancelTask"
        /\ last'.id = id
        /\ taskRegistry[id].status \in {None, "completed", "failed", "cancelled"})
         => (/\ ~last'.ok
             /\ taskRegistry'[id] = taskRegistry[id]
             /\ \A k \in 1..Len(published') : published'[k].messageType # "task_cancel")]_vars

\* the part of C11 the code implements: an unknown id and a completed or
\* failed task are refused and nothing changes
C11_CancelRefusedWhenDone ==
  [][\A id \in TaskIds :
       (/\ last'.op = "cancelTask"
        /\ last'.id = id
        /\ taskRegistry[id].status \in {None, "completed", "failed"})
         => (/\ ~last'.ok
             /\ taskRegistry' = taskRegistry
             /\ published' = <<>>)]_vars

\* the TASK_RESPONSE messages addressed to the orchestrator in a sequence of
\* published messages, and those the orchestrator published itself
responsesToMCP(msgs) ==
  {k \in 1..Len(msgs) : msgs[k].messageType = "task_response" /\ msgs[k].destination = MCP}

forwardedByMCP(msgs) ==
  {k \in 1..Len(msgs) : msgs[k].messageType = "task_response" /\ msgs[k].source = MCP}

\* C12: when handleTaskResponse processes a response for a registered task
\* submitted with responseRequired and a recorded requester, exactly one
\* TASK_RESPONSE goes to that requester, with the same taskId and status and
\* the message id recorded at submission as correlationId; when no response
\* is required, no requester is recorded or the task id is unknown, nothing
\* is forwarded, and an unknown id changes no registry entry.
C12_ForwardsToRequester ==
  [][(MCP \in subscribers /\ responsesToMCP(published') # {}) =>
       \A r \in responsesToMCP(published') :
         LET id == published'[r].taskId
             info == taskRegistry[id]
         IN  IF info.status # None /\ info.responseRequired /\ info.source # None
               THEN /\ Cardinality(forwardedByMCP(published')) = 1
                    /\ \A f \in forwardedByMCP(published') :
                         /\ f > r
                         /\ published'[f].destination = info.source
                         /\ published'[f].taskId = id
                         /\ published'[f].status = published'[r].status
                         /\ published'[f].correlationId = info.messageId
               ELSE /\ forwardedByMCP(published') = {}
                    /\ info.status = None => taskRegistry' = taskRegistry
    ]_vars

\* C12 witness: the response of a settled execution has just been forwarded
\* to the requester recorded at submission.
C12_Witness ==
  /\ last.op = "settle"
  /\ responsesToMCP(published) # {}
  /\ \E f \in forwardedByMCP(published) :
       /\ published[f].destination = "user_interaction_agent"
       /\ published[f].correlationId = "msg_req"
       /\ published[f].taskId = last.id

\* the responses to the TASK_REQUEST of task id that an agent which had
\* taken the task published in a sequence of messages
responsesToRequest(msgs, id) ==
  {k \in 1..Len(msgs) : /\ msgs[k].messageType = "task_response"
                        /\ msgs[k].source \in ManagedAgents
                        /\ msgs[k].correlationId = requestId(id)}

\* C13 (as claimed): an agent answers a TASK_REQUEST it took while running
\* with one TASK_RESPONSE, addressed to the request's source, correlated to
\* the request and carrying its taskId, whose status is SUCCESS exactly when
\* executeTask returned normally.
C13_OneResponsePerRequest ==
  [][\A id \in TaskIds :
       (agentTasks'[id].agent # None /\ responsesToRequest(published', id) # {}) =>
          /\ Cardinality(responsesToRequest(published', id)) = 1
          /\ agentTasks[id].executing
          /\ ~agentTasks'[id].executing
          /\ \A k \in responsesToRequest(published', id) :
               /\ published'[k].source = agentTasks[id].agent
               /\ published'[k].destination = MCP
               /\ published'[k].taskId = id
               /\ (published'[k].status = StatusCode_SUCCESS
                     <=> ~executeTaskThrows(agentTasks[id].parameters))
    ]_vars

\* the part of C13 the code implements: one correlated response per request,
\* which reports failure when executeTask threw and success only when it
\* returned normally
C13_ResponseMatchesRequest ==
  [][\A id \in TaskIds :
       (agentTasks'[id].agent # None /\ responsesToRequest(published', id) # {}) =>
          /\ Cardinality(responsesToRequest(published', id)) = 1
          /\ agentTasks[id].executing
          /\ ~agentTasks'[id].executing
          /\ \A k \in responsesToRequest(published', id) :
               /\ published'[k].source = agentTasks[id].agent
               /\ published'[k].destination = MCP
               /\ published'[k].taskId = id
               /\ (published'[k].status = StatusCode_SUCCESS
                     => ~executeTaskThrows(agentTasks[id].parameters))
    ]_vars

\* C14: when executeTask throws, the agent stays as it was (running and
\* subscribed), the orchestrator's entry of the task becomes failed with the
\* error recorded, and the failure is forwarded to the requester when a
\* response was required and a requester recorded.
C14_ThrowIsContained ==
  [][\A id \in TaskIds :
       (/\ last'.op = "settle"
        /\ last'.id = id
        /\ executeTaskThrows(agentTasks[id].parameters)) =>
          /\ agentRunning' = agentRunning
          /\ subscribers' = subscribers
          /\ agentTasks'[id].error # None
          /\ (MCP \in subscribers /\ taskRegistry[id].status # None) =>
                /\ taskRegistry'[id].status = "failed"
                /\ taskRegistry'[id].error = agentTasks'[id].error
                /\ taskRegistry'[id].result = None
                /\ (taskRegistry[id].responseRequired /\ taskRegistry[id].source # None) =>
                      \E f \in forwardedByMCP(published') :
                        /\ published'[f].destination = taskRegistry[id].source
                        /\ published'[f].taskId = id
                        /\ published'[f].status # StatusCode_SUCCESS
    ]_vars

\* C14 witness: an execution has just thrown; its agent is still running
\* and subscribed, the task is failed in the registry and the failure has
\* been forwarded to the requester.
C14_Witness ==
  /\ last.op = "settle"
  /\ ~last.ok
  /\ executeTaskThrows(agentTasks[last.id].parameters)
  /\ agentRunning[agentTasks[last.id].agent]
  /\ agentTasks[last.id].agent \in subscribers
  /\ taskRegistry[last.id].status = "failed"
  /\ taskRegistry[last.id].error = "execution_error"
  /\ forwardedByMCP(published) # {}

(***************************************************************************)
(* Properties of the communication bus (SpecBus, SpecLog)                  *)
(***************************************************************************)
BusTypeOK ==
  /\ busCount \in Nat
  /\ \A i \in 1..Len(busSubscribers) :
       /\ busSubscribers[i].key \in BusKeys
       /\ Len(busSubscribers[i].handlers) > 0
       /\ \A j \in 1..Len(busSubscribers[i].handlers) :
            busSubscribers[i].handlers[j] \in Handlers
  /\ \A i, j \in 1..Len(busSubscribers) :
       busSubscribers[i].key = busSubscribers[j].key => i = j
  /\ Len(messageLog) <= busCount

\* the handlers called by the last publish, in call order
invokedHandlers == [i \in 1..Len(busLast.invoked) |-> busLast.invoked[i].handler]

handlerSet(handlers) == {handlers[i] : i \in 1..Len(handlers)}

\* the handlers registered, when publish began, under the keys a broadcast
\* from source goes to
broadcastAudience(subs, source) ==
  UNION {handlerSet(subs[i].handlers) :
           i \in {n \in 1..Len(subs) : subs[n].key # source}}

routedAsRegistered ==
  IF busLast.message.destination = "broadcast"
    THEN handlerSet(invokedHandlers) =
           broadcastAudience(busLast.before, busLast.message.source)
    ELSE invokedHandlers = get(busLast.before, busLast.message.destination)

\* C15: a broadcast publish invokes every handler registered under every key
\* other than msg.source and none registered under msg.source; a publish to
\* any other destination invokes exactly the handlers registered under that
\* key, in registration order, and nobody when the key has no handlers.
C15_PublishRoutes ==
  busLast.op = "publish" => routedAsRegistered

\* the same routing, for a publish during which no handler due to receive
\* the message unsubscribes
C15_RoutesStableList ==
  (/\ busLast.op = "publish"
   /\ \A h \in Handlers :
        registered(busLast.before, h) => behaviour[h] # "unsubscribes")
    => routedAsRegistered

\* the deliveries due for a message when publish begins, in Map and array
\* order
RECURSIVE audience(_, _, _)
audience(subs, message, i) ==
  IF i > Len(subs) THEN <<>>
  ELSE
    LET due == IF message.destination = "broadcast"
                 THEN subs[i].key # message.source
                 ELSE subs[i].key = message.destination
        here == IF due
                  THEN [j \in 1..Len(subs[i].handlers) |->
                          [handler |-> subs[i].handlers[j], key |-> subs[i].key]]
                  ELSE <<>>
    IN  here \o audience(subs, message, i + 1)

dueAfter(n) ==
  LET due == audience(busLast.before, busLast.message, 1)
      p   == CHOOSE q \in 1..Len(due) : due[q] = busLast.invoked[n]
  IN  IF p < Len(due) THEN <<due[p + 1]>> ELSE <<>>

\* C16: when a handler throws during a delivery, publish does not throw to
\* its caller, and the delivery goes on with the handler due next; with no
\* handler leaving the list during the delivery, every handler due is called
\* whichever of them throw.
C16_ThrowIsCaught ==
  busLast.op = "publish" =>
    /\ ~busLast.threw
    /\ \A n \in 1..Len(busLast.invoked) :
         (behaviour[busLast.invoked[n].handler] = "throws" /\ dueAfter(n) # <<>>)
           => /\ n < Len(busLast.invoked)
              /\ busLast.invoked[n + 1] = dueAfter(n)[1]
    /\ (\A h \in Handlers :
          registered(busLast.before, h) => behaviour[h] # "unsubscribes")
         => busLast.invoked = audience(busLast.before, busLast.message, 1)

\* a publish during which a handler threw and another handler was called
\* after it
C16_Witness ==
  /\ busLast.op = "publish"
  /\ ~busLast.threw
  /\ \E n \in 1..Len(busLast.invoked) :
       /\ behaviour[busLast.invoked[n].handler] = "throws"
       /\ n < Len(busLast.invoked)

\* every handler is registered under the id of its agent or under
\* "broadcast", one handler of an agent per key: the subscriptions agents
\* make in initialize
subscribedAsAgents(subs) ==
  /\ \A h \in Handlers :
       registered(subs, h) => keyOf(subs, h) \in {owner[h], "broadcast"}
  /\ \A h1, h2 \in Handlers :
       (/\ registered(subs, h1) /\ registered(subs, h2)
        /\ owner[h1] = owner[h2] /\ keyOf(subs, h1) = keyOf(subs, h2))
         => h1 = h2

\* the number of times the last publish called a handler of the agent
deliveriesTo(agent) ==
  Cardinality({n \in 1..Len(busLast.invoked) :
                 owner[busLast.invoked[n].handler] = agent})

\* C17: one publish delivers the message to each subscribed agent at most
\* once, also to an agent subscribed under its own id and under "broadcast";
\* nothing is delivered outside a publish.
C17_AtMostOncePerAgent ==
  /\ busLast.op # "publish" => busLast.invoked = <<>>
  /\ (busLast.op = "publish" /\ subscribedAsAgents(busLast.before))
       => \A agent \in BusSources : deliveriesTo(agent) <= 1

\* the part of C17 that holds: a publish to one agent's key reaches that
\* agent once, no handler is called twice by one publish, and subscribe and
\* unsubscribe deliver nothing (no replay of the log to a late subscriber)
C17_NoRepeatNoReplay ==
  /\ busLast.op # "publish" => busLast.invoked = <<>>
  /\ \A n, m \in 1..Len(busLast.invoked) :
       busLast.invoked[n].handler = busLast.invoked[m].handler => n = m
  /\ (/\ busLast.op = "publish"
      /\ subscribedAsAgents(busLast.before)
      /\ busLast.message.destination # "broadcast")
       => \A agent \in BusSources : deliveriesTo(agent) <= 1

\* the ids of the last min(n, MAX_LOG_SIZE) of n publishes, oldest first
mostRecent(n) ==
  LET kept == IF n < MAX_LOG_SIZE THEN n ELSE MAX_LOG_SIZE
  IN  [i \in 1..kept |-> n - kept + i]

\* C18: the log never holds more than MAX_LOG_SIZE = 1000 messages; after n
\* publishes it holds exactly the most recent min(n, 1000) messages in
\* publish order, whether or not a handler was subscribed for them.
C18_LogKeepsMostRecent ==
  /\ Len(messageLog) <= MAX_LOG_SIZE
  /\ messageLog = mostRecent(busCount)

\* more than MAX_LOG_SIZE publishes were made, the oldest are gone, and the
\* last message, which no handler received, is the newest entry
C18_Witness ==
  /\ busCount > MAX_LOG_SIZE
  /\ Len(messageLog) = MAX_LOG_SIZE
  /\ messageLog[1] = busCount - MAX_LOG_SIZE + 1
  /\ busLast.op = "publish"
  /\ busLast.invoked = <<>>
  /\ messageLog[MAX_LOG_SIZE] = busLast.message.id

(***************************************************************************)
(* Properties of the agent life cycle (SpecAgents)                         *)
(***************************************************************************)
\* an agent task that is finished: completedAt is set
terminal(task) == task.completedAt

\* how BaseAgent records a task it gave up at shutdown: finished, with the
\* error 'Agent shutdown'
markedCancelled(before, after) ==
  /\ after.completedAt
  /\ after.error = "Agent shutdown"
  /\ after.result = before.result
  /\ after.agent = before.agent

MgrTypeOK ==
  /\ agentConfigs \in BOOLEAN /\ mgrAgents \in BOOLEAN /\ healthChecks \in BOOLEAN
  /\ instanceStatus \in {None, AgentStatus_READY, AgentStatus_ERROR}
  /\ health.consecutiveFailures \in Nat /\ health.restartAttempts \in Nat
  /\ retryTimers \in Nat /\ checks \in 0..MaxChecks
  /\ (healthChecks => mgrAgents)

\* C20: the restarts checkAgentHealth makes of an agent that every check
\* finds unhealthy never number more than maxRetries (here for an agent whose
\* initialize() never failed).
C20_HealthRestartsBounded ==
  initFailures = 0 => healthRestarts <= maxRetries

\* the part of C20 that holds: a check restarts the agent only at
\* unhealthyThreshold or more counted failures, the restart leaves the agent
\* started again (or its start failed), and the health record of a
\* registered agent is always there
C20_RestartStopsThenStarts ==
  /\ (mgrLast.op = "checkAgentHealth" /\ mgrLast.restarted)
       => /\ mgrAgents
          /\ health.restartAttempts = 0
          /\ (healthChecks <=> health.isHealthy)
  /\ agentConfigs => health # NoHealth

\* C21: whatever startAgent calls are made for the agent and however they
\* interleave with its retry timers, restartAttempts never exceeds maxRetries.
C21_RestartAttemptsBounded == health.restartAttempts <= maxRetries

\* the part of C21 that holds: a start whose initialize() failed has counted
\* one more failure, left the record unhealthy, thrown to its caller, and
\* scheduled a retry exactly when restartAttempts was below maxRetries
C21_FailedStartRecorded ==
  [][(mgrLast'.op \in {"startAgent", "retry"} /\ mgrLast'.threw) =>
       /\ ~health'.isHealthy
       /\ health'.status = AgentStatus_ERROR
       /\ health'.consecutiveFailures = health.consecutiveFailures + 1
       /\ LET attempts == IF mgrLast'.op = "retry"
                            THEN health.restartAttempts + 1
                            ELSE health.restartAttempts
              pending  == IF mgrLast'.op = "retry"
                            THEN retryTimers - 1 ELSE retryTimers
          IN  /\ health'.restartAttempts = attempts
              /\ retryTimers' = IF attempts < maxRetries THEN pending + 1 ELSE pending
    ]_vars

(***************************************************************************)
(* Properties of the resilience harness (SpecTester)                       *)
(***************************************************************************)
TesterTypeOK ==
  /\ activeTests \in BOOLEAN
  /\ hardStop \in BOOLEAN
  /\ routine.pc \in {"none", "partition", "crashWait", "verify", "done"}
  /\ testResults.failureCount \in 0..MaxFailureCount
  /\ testResults.successCount \in 0..1

\* C23: stopTest on an active test cancels the hard stop and removes the test
\* from the active set, keeping its result (only endTime is written); once the
\* test is not active the harness records no further fault against it and does
\* not touch the agent; a stored result stays retrievable; and stopTest on an
\* unknown or already stopped test changes nothing.
C23_StopTest ==
  [][/\ (testerLast'.op = "stopTest" /\ activeTests) =>
          /\ ~activeTests'
          /\ ~hardStop'
          /\ testResults # NoResult
          /\ testResults' = [testResults EXCEPT !.ended = TRUE]
     /\ (testerLast'.op = "stopTest" /\ ~activeTests) =>
          UNCHANGED <<activeTests, hardStop, testResults, routine, mgrVars>>
     /\ (testResults # NoResult) => testResults' # NoResult
     /\ (testResults # NoResult /\ ~activeTests /\ testerLast'.op # "manager") =>
          /\ testResults'.failureCount = testResults.failureCount
          /\ testResults'.successCount = testResults.successCount
          /\ UNCHANGED mgrVars
    ]_vars

\* C23 witness: stopTest has just stopped an active test whose fault routine
\* was still waiting, and the result of the test is still there.
C23_Witness ==
  /\ testerLast.op = "stopTest"
  /\ testerLast.wasActive
  /\ ~activeTests
  /\ ~hardStop
  /\ routine.pc = "partition"
  /\ testResults.failureType = NETWORK_PARTITION
  /\ testResults.ended

\* C22: after the crash fault of the harness (stopAgent on the running,
\* healthy agent, no retry pending) the manager restarts the agent:
\* restartAttempts goes up by one and the health record is healthy again,
\* unless somebody makes another call on the manager first.
C22_CrashRestartsAgent ==
  \A n \in 0..maxRetries :
    (/\ mgrLast.op = "stopAgent"
     /\ health.status = AgentStatus_OFFLINE
     /\ health.isHealthy
     /\ retryTimers = 0
     /\ health.restartAttempts = n)
      ~> \/ health.restartAttempts = n + 1 /\ health.isHealthy
         \/ mgrLast.op # "stopAgent"

\* the part of C22 that holds: stopAgent removes the agent and its health
\* check and leaves the restart counter alone.
C22_StopAgentRemoves ==
  [][mgrLast'.op = "stopAgent" =>
       /\ ~mgrAgents'
       /\ ~healthChecks'
       /\ health'.status = AgentStatus_OFFLINE
       /\ health'.restartAttempts = health.restartAttempts
       /\ health'.isHealthy = health.isHealthy
       /\ retryTimers' = retryTimers
    ]_vars

(***************************************************************************)
(* Properties of the dispatch loop (Spec, SpecAgents)                      *)
(***************************************************************************)
\* C24: an iteration of the dispatch loop assigns the head task only to an
\* agent that is registered with the MCP, recorded as running, and in fact
\* running and subscribed to the bus; in particular not to an agent that has
\* shut down.
C24_AssignsOnlyToReadyAgent ==
  [][(last'.op = "dispatch" /\ last'.ok) =>
       LET dst == taskRegistry[last'.id].destinationAgent
       IN  /\ dst \in agents
           /\ agentStatus[dst] = "running"
           /\ agentRunning[dst]
           /\ dst \in subscribers
    ]_vars

\* the part of C24 that holds: the iteration assigns the head exactly when
\* the MCP's own maps have the target agent registered and 'running'; it
\* then dequeues the head, marks it assigned and publishes the request first;
\* otherwise queue and registry stay as they are and nothing is published.
C24_AssignsAsRecorded ==
  [][last'.op = "dispatch" =>
       IF ~isEmpty(taskQueue) /\ canAssign(peek(taskQueue))
         THEN /\ last'.ok
              /\ last'.id = peek(taskQueue)
              /\ taskQueue' = dequeue(taskQueue)
              /\ taskRegistry[last'.id].status = "pending"
                   => taskRegistry'[last'.id].status \in {"assigned", "failed"}
              /\ published' # <<>>
              /\ published'[1] = TaskRequest(taskRegistry[last'.id].destinationAgent, last'.id)
         ELSE /\ ~last'.ok
              /\ published' = <<>>
              /\ UNCHANGED <<taskQueue, taskRegistry, agentTasks>>
    ]_vars

\* the queue of the orchestrator is in comparator order
queueSorted ==
  \A i, j \in 1..Len(taskQueue) :
    i < j => comparator(queued(taskRegistry, taskQueue[i]),
                        queued(taskRegistry, taskQueue[j])) <= 0

\* C25: dispatch is in queue order.  An iteration assigns nothing but the
\* head of the queue, and no queued task is ordered before the assigned one
\* by (priority, submission time); while the head cannot be assigned the
\* iteration leaves every queued task where it is, also one whose own agent
\* is ready.
C25_HeadOfLine ==
  /\ []queueSorted
  /\ [][/\ (last'.op = "dispatch" /\ last'.ok) =>
             /\ last'.id = taskQueue[1]
             /\ taskQueue' = Tail(taskQueue)
             /\ \A k \in 1..Len(taskQueue') :
                  comparator(queued(taskRegistry, taskQueue'[k]),
                             queued(taskRegistry, last'.id)) >= 0
        /\ (last'.op = "dispatch" /\ ~last'.ok) =>
             /\ taskQueue' = taskQueue
             /\ taskRegistry' = taskRegistry
             /\ published' = <<>>
        /\ \A id \in TaskIds :
             (taskRegistry[id].status = "pending" /\ taskRegistry'[id].status = "assigned")
               => (last'.op = "dispatch" /\ id = taskQueue[1])
       ]_vars

\* C25 witness: an iteration has just left the queue alone because the agent
\* of the head (more urgent) is not there, although the task behind it could
\* have gone to its agent.
C25_Witness ==
  /\ last.op = "dispatch"
  /\ ~last.ok
  /\ Len(taskQueue) >= 2
  /\ ~canAssign(taskQueue[1])
  /\ canAssign(taskQueue[2])
  /\ agentRunning[taskRegistry[taskQueue[2]].destinationAgent]
  /\ taskRegistry[taskQueue[1]].task.priority = "high"
  /\ taskRegistry[taskQueue[2]].task.priority = "medium"
  /\ taskRegistry[taskQueue[2]].status = "pending"

\* tasks that an iteration takes out of the queue
handledBy(before, after) ==
  {id \in TaskIds : (\E k \in 1..Len(before) : before[k] = id)
                      /\ ~(\E k \in 1..Len(after) : after[k] = id)}

\* C26: an iteration of the dispatch loop takes at most one task out of the
\* queue and assigns at most one; it consumes the callback that ran it and,
\* thrown or not, arms the next one exactly when the MCP is running, so that
\* while the MCP runs a callback is always pending and once it has stopped
\* none is armed again; and only an iteration assigns tasks, so that
\* whatever else runs does so between iterations.
C26_LoopYieldsAndRearms ==
  /\ [](running => armed >= 1)
  /\ [][/\ loopLast'.op = "iteration" =>
             /\ Cardinality(handledBy(taskQueue, taskQueue')) <= 1
             /\ Cardinality({id \in TaskIds :
                               taskRegistry[id].status # taskRegistry'[id].status}) <= 1
             /\ armed' = IF running THEN armed ELSE armed - 1
        /\ loopLast'.op # "iteration" =>
             /\ \A id \in TaskIds : taskRegistry'[id].status # "assigned"
                                      \/ taskRegistry[id].status = "assigned"
             /\ armed' >= armed
        /\ ~running' => armed' <= armed
       ]_vars

\* C26 witness: an iteration that threw has taken one of two waiting tasks,
\* and the loop is armed again with the other task still queued.
C26_Witness ==
  /\ loopLast.op = "iteration"
  /\ loopLast.threw
  /\ running
  /\ armed >= 1
  /\ Len(taskQueue) = 1
  /\ canAssign(taskQueue[1])
  /\ \E id \in TaskIds : taskRegistry[id].status = "assigned"

\* a second reachable case of C26: the MCP has been shut down and the
\* callback that was pending has run without arming another one.
C26_LoopStopped ==
  /\ loopLast.op = "iteration"
  /\ ~running
  /\ armed = 0

(***************************************************************************)
(* Properties of the tasks kept by an agent (SpecAgents)                   *)
(***************************************************************************)
\* the agent's record of a task says that the task was cancelled
cancelledAtAgent(task) ==
  /\ task.agent # None
  /\ task.completedAt
  /\ task.error \in {"Task cancelled", "Agent shutdown"}
  /\ task.result = None

\* C27: a task that the agent has marked cancelled (by TASK_CANCEL or by
\* shutdown) keeps that record, also when its executeTask settles later.
C27_CancelledStaysCancelled ==
  [][\A id \in TaskIds :
       cancelledAtAgent(agentTasks[id]) => cancelledAtAgent(agentTasks'[id])
    ]_vars

\* the part of C27 that holds: once executeTask has settled, the record of a
\* finished task never changes again, whatever arrives afterwards.
C27_SettledStaysSettled ==
  [][\A id \in TaskIds :
       (terminal(agentTasks[id]) /\ ~agentTasks[id].executing)
         => agentTasks'[id] = agentTasks[id]
    ]_vars

\* the status of the TASK_RESPONSE the agent publishes for a TASK_CANCEL
cancelReplies ==
  {published[k].status : k \in {j \in 1..Len(published) :
                                  /\ published[j].messageType = "task_response"
                                  /\ published[j].correlationId = cancelId(published[j].taskId)
                                  /\ published[j].source \in ManagedAgents}}

\* C28: a TASK_CANCEL for a task the agent has: an unfinished task is marked
\* cancelled and the agent confirms; for a task that is already finished
\* (completed, failed or cancelled) the record stays as it is and the agent
\* confirms no cancellation.
C28_CancelOnlyUnfinished ==
  [][last'.op = "taskCancel" =>
       LET task == agentTasks[last'.id]
       IN  IF ~terminal(task)
             THEN /\ agentTasks'[last'.id] =
                       [task EXCEPT !.completedAt = TRUE, !.error = "Task cancelled"]
                  /\ cancelReplies' = {"cancelled"}
             ELSE /\ agentTasks'[last'.id] = task
                  /\ "cancelled" \notin cancelReplies'
    ]_vars

\* the part of C28 that holds: an unfinished task is marked cancelled and
\* confirmed, and the record of a finished task is left as it is.
C28_CancelMarksUnfinished ==
  [][last'.op = "taskCancel" =>
       LET task == agentTasks[last'.id]
       IN  /\ cancelReplies' = {"cancelled"}
           /\ agentTasks'[last'.id] =
                IF ~terminal(task)
                  THEN [task EXCEPT !.completedAt = TRUE, !.error = "Task cancelled"]
                  ELSE task
    ]_vars

\* C29: the breaker leaves OPEN for HALF_OPEN only in execute or in the
\* monitor, only when at least resetTimeout has passed since it entered
\* OPEN, and at most once for each time it is OPEN; HALF_OPEN is entered
\* from OPEN only.
C29_HalfOpenAfterReset ==
  /\ [](halfOpens <= 1)
  /\ [][/\ (breaker.state = "OPEN" /\ breaker'.state = "HALF_OPEN") =>
             /\ cbOp' \in {"invoke", "monitor"}
             /\ cbNow - openSince >= resetTimeout
             /\ openSince = breaker.lastStateChange
             /\ breaker'.lastStateChange = cbNow
             /\ halfOpens = 0
        /\ (breaker.state # "HALF_OPEN" /\ breaker'.state = "HALF_OPEN") =>
             breaker.state = "OPEN"
       ]_vars

\* C29 witness: the monitor has just half-opened the breaker, for the first
\* time since it became OPEN, more than three resetTimeouts after that.
C29_Witness ==
  /\ cbOp = "monitor"
  /\ cbPre.state = "OPEN"
  /\ breaker.state = "HALF_OPEN"
  /\ halfOpens = 1
  /\ cbNow - openSince > 3 * resetTimeout

\* a second reachable case of C29: execute has just half-opened the breaker.
C29_ByExecute ==
  /\ cbOp = "invoke"
  /\ cbPre.state = "OPEN"
  /\ breaker.state = "HALF_OPEN"
  /\ halfOpens = 1

\* C30: a tick of the monitor that finds the breaker OPEN for longer than
\* three times resetTimeout moves it to HALF_OPEN with successes 0; any
\* other tick of the monitor leaves the breaker as it is.
C30_MonitorHalfOpensStale ==
  [][cbOp' = "monitor" =>
       IF breaker.state = "OPEN" /\ cbNow - openSince > 3 * resetTimeout
         THEN /\ breaker'.state = "HALF_OPEN"
              /\ breaker'.successes = 0
              /\ breaker'.lastStateChange = cbNow
              /\ breaker'.failures = breaker.failures
              /\ breaker'.rejected = breaker.rejected
         ELSE breaker' = breaker
    ]_vars

\* C30 witness: no call was made to the breaker while it was OPEN, and the
\* monitor has just moved it to HALF_OPEN.
C30_Witness ==
  /\ cbOp = "monitor"
  /\ cbPre.state = "OPEN"
  /\ cbPre.rejected = 0
  /\ cbNow - cbPre.lastStateChange > 3 * resetTimeout
  /\ breaker.state = "HALF_OPEN"
  /\ breaker.successes = 0
  /\ breaker.lastStateChange = cbNow

\* a second reachable case of C30: a tick of the monitor has left alone a
\* breaker that has been OPEN for more than resetTimeout, but not for more
\* than three times resetTimeout.
C30_MonitorLeavesOpen ==
  /\ cbOp = "monitor"
  /\ cbPre.state = "OPEN"
  /\ breaker = cbPre
  /\ cbNow - openSince > resetTimeout

\* C31: a wrapped operation that has not settled when the breaker's timeout
\* has elapsed is rejected by execute and recorded as exactly one failure
\* (failures + 1, lastFailureTime = now, OPEN when the threshold is reached or
\* the breaker was HALF_OPEN, nothing counted as rejected), and the later
\* settlement of that operation, resolved or rejected, changes no breaker state.
C31_TimeoutIsOneFailure ==
  [][/\ cbOp' = "timeout" =>
          /\ \E i \in 1..Len(inflight) :
                /\ cbNow - inflight[i] >= timeout
                /\ inflight' = RemoveAt(inflight, i)
          /\ breaker'.failures = breaker.failures + 1
          /\ breaker'.lastFailureTime = cbNow
          /\ breaker'.state =
               IF breaker.state = "HALF_OPEN" \/ breaker.failures + 1 >= failureThreshold
                 THEN "OPEN" ELSE breaker.state
          /\ breaker'.rejected = breaker.rejected
          /\ breaker'.successes = breaker.successes
          /\ breaker'.lastSuccessTime = breaker.lastSuccessTime
          /\ abandoned' = abandoned + 1
     /\ cbOp' = "lateSettle" =>
          /\ abandoned' = abandoned - 1
          /\ breaker' = breaker
          /\ inflight' = inflight]_vars

\* timeouts have opened the breaker, and the operation of one of the calls
\* that timed out has settled afterwards, at a later time, leaving the breaker
\* as it was
C31_Witness ==
  /\ cbOp = "lateSettle"
  /\ cbPre = breaker
  /\ breaker.state = "OPEN"
  /\ breaker.failures = failureThreshold
  /\ consecFail = failureThreshold
  /\ cbNow > breaker.lastFailureTime

\* C35: in every reachable state of the Orchestrator the queue and the task
\* registry agree: every task in the queue is registered with status pending,
\* and every registered task with status pending is in the queue exactly once.
C35_QueueMatchesRegistry ==
  /\ \A k \in 1..Len(taskQueue) :
        /\ taskRegistry[taskQueue[k]] # NoTask
        /\ taskRegistry[taskQueue[k]].status = "pending"
  /\ \A id \in TaskIds :
        (taskRegistry[id] # NoTask /\ taskRegistry[id].status = "pending") =>
           Cardinality({k \in 1..Len(taskQueue) : taskQueue[k] = id}) = 1

\* the half of C35 that the code keeps: a pending task is queued exactly once
\* and the queue holds registered tasks only, each pending or cancelled
C35_PendingQueuedOnce ==
  /\ \A k \in 1..Len(taskQueue) :
        /\ taskRegistry[taskQueue[k]] # NoTask
        /\ taskRegistry[taskQueue[k]].status \in {"pending", "cancelled"}
  /\ \A id \in TaskIds :
        (taskRegistry[id] # NoTask /\ taskRegistry[id].status = "pending") =>
           Cardinality({k \in 1..Len(taskQueue) : taskQueue[k] = id}) = 1

\* how many times a delivery (handler, key) occurs in a sequence of deliveries
timesIn(deliveries, d) ==
  Cardinality({n \in 1..Len(deliveries) : deliveries[n] = d})

\* C36: when a handler unsubscribes while publish is fanning a message out,
\* every handler that was due for the message when publish began and has not
\* itself been unsubscribed is invoked exactly once for it, and no handler
\* is invoked twice.
C36_UnsubscribeDuringPublish ==
  busLast.op = "publish" =>
    LET due == audience(busLast.before, busLast.message, 1)
    IN  /\ \A p \in 1..Len(due) :
             registered(busSubscribers, due[p].handler) =>
               timesIn(busLast.invoked, due[p]) = 1
        /\ \A n \in 1..Len(busLast.invoked) :
             timesIn(busLast.invoked, busLast.invoked[n]) = 1

\* what the code keeps of C36: nobody is invoked twice, and only handlers due
\* when publish began are invoked
C36_NoneTwice ==
  busLast.op = "publish" =>
    LET due == audience(busLast.before, busLast.message, 1)
    IN  \A n \in 1..Len(busLast.invoked) :
          /\ timesIn(busLast.invoked, busLast.invoked[n]) = 1
          /\ timesIn(due, busLast.invoked[n]) = 1

\* C37: a test started by runTest is in the active set before its fault
\* routine first asks whether the test has been stopped, so a test that is
\* never stopped performs all its configured iterations: once the AGENT_CRASH
\* routine of a test that is still active has left its loop, the result
\* records failureCount injections.
C37_AllIterationsRun ==
  (/\ testResults # NoResult
   /\ testResults.failureType = AGENT_CRASH
   /\ activeTests
   /\ routine.pc \in {"verify", "done"})
    => testResults.failureCount = routine.failureCount

\* C38: in every reachable state of the Lifecycle Manager an agent that is
\* not in the active agent map (never started, or stopped) is not reported
\* with isHealthy = true in its health record and has no health-check timer
\* running.
C38_InactiveNotHealthy ==
  ~mgrAgents => (~health.isHealthy /\ ~healthChecks)

\* the timer half of C38, which the code keeps: no health-check timer runs
\* for an agent outside the active map
C38_InactiveHasNoHealthCheck ==
  ~mgrAgents => ~healthChecks

RegTypeOK ==
  /\ nextBreakerId \in 1..(MaxBreakers + 1)
  /\ monitorTimers \subseteq 1..MaxBreakers
  /\ \A k \in RegKeys :
       breakers[k] # NoBreaker =>
         /\ breakers[k].id \in 1..(nextBreakerId - 1)
         /\ breakers[k].b.state \in {"CLOSED", "OPEN", "HALF_OPEN"}

\* the keys other than the one of the last call hold what they held before
otherKeysKept == \A k \in RegKeys \ {regLast.key} : breakers[k] = regLast.before[k]

\* C33: the registry holds at most one breaker per key.  getBreaker(key)
\* constructs a CLOSED breaker on first use and returns that same instance,
\* untouched by the options of the call, on every later call until it is
\* removed; after removeBreaker(key) or dispose() the keys are absent and the
\* monitor timers of the removed breakers are cleared; removeBreaker and
\* resetBreaker on an unknown key return false and create nothing.  No timer
\* runs for an instance the registry no longer holds, and no instance is held
\* under two keys.
C33_OneBreakerPerKey ==
  /\ \A k1, k2 \in RegKeys :
       (breakers[k1] # NoBreaker /\ breakers[k2] # NoBreaker /\ k1 # k2)
         => breakers[k1].id # breakers[k2].id
  /\ monitorTimers \subseteq {breakers[k].id : k \in RegKeys} \ {0}
  /\ regLast.op = "getBreaker" =>
       /\ breakers[regLast.key] # NoBreaker
       /\ regLast.returned = breakers[regLast.key].id
       /\ IF regLast.before[regLast.key] # NoBreaker
            THEN /\ breakers = regLast.before
                 /\ monitorTimers = regLast.timersBefore
            ELSE /\ breakers[regLast.key].b = newCircuitBreaker(cbNow)
                 /\ breakers[regLast.key].id = nextBreakerId - 1
                 /\ \A k \in RegKeys : regLast.before[k].id < nextBreakerId - 1
                 /\ otherKeysKept
  /\ regLast.op = "removeBreaker" =>
       /\ breakers[regLast.key] = NoBreaker
       /\ regLast.returned = (IF regLast.before[regLast.key] # NoBreaker THEN 1 ELSE 0)
       /\ regLast.before[regLast.key].id \notin monitorTimers
       /\ otherKeysKept
  /\ regLast.op = "resetBreaker" =>
       /\ regLast.returned = (IF regLast.before[regLast.key] # NoBreaker THEN 1 ELSE 0)
       /\ regLast.before[regLast.key] = NoBreaker => breakers = regLast.before
       /\ regLast.before[regLast.key] # NoBreaker =>
            /\ breakers[regLast.key].id = regLast.before[regLast.key].id
            /\ breakers[regLast.key].b.state = "CLOSED"
            /\ breakers[regLast.key].b.failures = 0
       /\ otherKeysKept
       /\ monitorTimers = regLast.timersBefore
  /\ regLast.op = "dispose" =>
       /\ \A k \in RegKeys : breakers[k] = NoBreaker
       /\ monitorTimers = {}

\* getBreaker is called with other options on a key whose breaker has
\* failed since it was created: the same instance is returned, with its
\* failures, and the monitor timer it was created with still runs
C33_Witness ==
  /\ regLast.op = "getBreaker"
  /\ regLast.before[regLast.key] # NoBreaker
  /\ breakers[regLast.key].b.failures > 0
  /\ breakers[regLast.key].id \in monitorTimers
  /\ \E k \in RegKeys : breakers[k] = NoBreaker /\ nextBreakerId > 2

\* removeBreaker on a key that holds nothing, after a breaker was removed
C33_UnknownKey ==
  /\ regLast.op = "removeBreaker"
  /\ regLast.returned = 0
  /\ nextBreakerId > 1

\* C34: across any sequence of initialize() and shutdown() calls of the
\* Lifecycle Manager at most one uncaught-exception handler and one
\* unhandled-rejection handler of the manager are attached to the process,
\* after shutdown() none remains attached, and the handlers never terminate
\* the process.
C34_HandlersInstalledOnce ==
  /\ uncaughtListeners <= 1
  /\ rejectionListeners <= 1
  /\ procLast = "shutdown" => (uncaughtListeners = 0 /\ rejectionListeners = 0)
  /\ ~exited

\* what the code keeps of C34: a call of initialize on an initialized manager
\* attaches nothing, the two events have the same number of listeners, and
\* no handler terminates the process
C34_HandlersOnlyLog ==
  /\ ~exited
  /\ uncaughtListeners = rejectionListeners
  /\ isInitialized => uncaughtListeners >= 1

\* C39: for each agent and any sequence of initialize() and shutdown() calls
\* at most one periodic status-update timer of the agent is active, none is
\* active after shutdown(), a running agent emits one periodic STATUS_UPDATE
\* per interval however often it was restarted, and initialize() on a running
\* agent adds no subscription and no timer.
C39_OneStatusTimer ==
  \A a \in ManagedAgents :
    /\ statusTimers[a] <= 1
    /\ ~agentIsRunning[a] => statusTimers[a] = 0
    /\ (agentLast.op = "interval" /\ agentLast.agent = a /\ agentIsRunning[a])
         => statusUpdates[a] = 1
    /\ (agentLast.op = "initialize" /\ agentLast.agent = a /\ agentLast.wasRunning)
         => /\ agentSubscriptions[a] = agentLast.subscriptionsBefore
            /\ statusTimers[a] = agentLast.timersBefore

\* what the code keeps of C39: one subscription per running agent and none
\* for a stopped one, nothing added by initialize() on a running agent, and
\* no periodic update from an agent that is not running
C39_StoppedAgentIsSilent ==
  \A a \in ManagedAgents :
    /\ agentSubscriptions[a] = (IF agentIsRunning[a] THEN 1 ELSE 0)
    /\ (agentLast.op = "interval" /\ ~agentIsRunning[a]) => statusUpdates[a] = 0
    /\ (agentLast.op = "initialize" /\ agentLast.agent = a /\ agentLast.wasRunning)
         => /\ agentSubscriptions[a] = agentLast.subscriptionsBefore
            /\ statusTimers[a] = agentLast.timersBefore

\* the breaker of the destination of the last send was OPEN, its reset
\* timeout not elapsed, when the send began
circuitWasOpen ==
  /\ ebLast.before[ebLast.key] # NoBreaker
  /\ ebLast.before[ebLast.key].b.state = "OPEN"
  /\ ~resetElapsed(ebLast.before[ebLast.key].b, ebNow)

\* C32: every message sent through the enhanced bus goes through the circuit
\* breaker of its destination: while that breaker is OPEN and its reset
\* timeout has not elapsed the base bus is not invoked and the sender gets a
\* failure result; every failed send is counted as a failure by the
\* destination's breaker, also when the destination had no breaker before
\* the send.
C32_SendsGoThroughBreaker ==
  ebLast.op = "sendMessage" =>
    /\ breakers[ebLast.key] # NoBreaker
    /\ circuitWasOpen => (ebLast.baseInvoked = 0 /\ ~ebLast.success)
    /\ (~ebLast.success /\ ebLast.baseInvoked > 0) =>
          /\ breakers[ebLast.key] # NoBreaker
          /\ breakers[ebLast.key].b.failures >=
               ebLast.baseInvoked +
                 (IF ebLast.before[ebLast.key] # NoBreaker
                    THEN ebLast.before[ebLast.key].b.failures ELSE 0)

\* what the code keeps of C32: a send to a destination that has a breaker
\* goes through it (no base-bus call and a failure result while it is OPEN
\* and the reset timeout has not elapsed, one failure counted per failed
\* attempt), and a send never creates or removes a breaker
C32_ExistingBreakerGuards ==
  ebLast.op = "sendMessage" =>
    /\ \A k \in RegKeys : (breakers[k] = NoBreaker) <=> (ebLast.before[k] = NoBreaker)
    /\ circuitWasOpen => (ebLast.baseInvoked = 0 /\ ~ebLast.success)
    /\ (~ebLast.success /\ ebLast.before[ebLast.key] # NoBreaker) =>
          breakers[ebLast.key].b.failures =
            ebLast.before[ebLast.key].b.failures + ebLast.baseInvoked

\* a send is rejected by an OPEN breaker without reaching the base bus
C32_RejectedWhileOpen ==
  /\ ebLast.op = "sendMessage"
  /\ circuitWasOpen
  /\ ebLast.baseInvoked = 0
  /\ breakers[ebLast.key].b.rejected > ebLast.before[ebLast.key].b.rejected

\* C40: each sendMessageWithResponse call settles exactly once: resolved by
\* the first incoming message whose correlationId is the request's id, or
\* rejected when its timer fires or the bus disconnects, whichever comes
\* first; its pending entry is removed at that moment (and its timer is no
\* longer scheduled), and a correlated message that arrives afterwards does
\* not settle the call again and goes to the regular handlers.
C40_SettlesOnce ==
  /\ \A id \in RequestIds :
       /\ requests[id].resolverCalls <= 1
       /\ (id \in pendingResponses) <=> (requests[id].status = "pending")
       /\ requests[id].timer <=> (requests[id].status = "pending")
       /\ requests[id].status \in {"resolved", "rejected"} <=> requests[id].resolverCalls = 1
  /\ ebLast.op = "handleMessage" =>
       IF ebLast.id \in ebLast.pendingBefore
         THEN /\ requests[ebLast.id].status = "resolved"
              /\ ebLast.delivered = 0
              /\ \A j \in RequestIds \ {ebLast.id} : requests[j] = ebLast.requestsBefore[j]
         ELSE /\ requests = ebLast.requestsBefore
              /\ ebLast.delivered = messageHandlers
  /\ ebLast.op = "timeout" =>
       /\ ebLast.requestsBefore[ebLast.id].status = "pending"
       /\ requests[ebLast.id].status = "rejected"
       /\ \A j \in RequestIds \ {ebLast.id} : requests[j] = ebLast.requestsBefore[j]
  /\ ebLast.op = "disconnect" =>
       \A id \in RequestIds :
         IF id \in ebLast.pendingBefore
           THEN requests[id].status = "rejected"
           ELSE requests[id] = ebLast.requestsBefore[id]

\* a request was answered, and a second message with the same correlationId
\* has arrived since: the request is resolved once and the message went to
\* the registered handler
C40_Witness ==
  /\ ebLast.op = "handleMessage"
  /\ ebLast.id # 0
  /\ ebLast.requestsBefore[ebLast.id].status = "resolved"
  /\ requests[ebLast.id].resolverCalls = 1
  /\ messageHandlers > 0
  /\ ebLast.delivered = messageHandlers

\* a correlated message arrives after the request was rejected by its timer
C40_LateAfterTimeout ==
  /\ ebLast.op = "handleMessage"
  /\ ebLast.id # 0
  /\ requests[ebLast.id].status = "rejected"
  /\ ebLast.delivered > 0

====
